---- MODULE Spec2Model ----
(***************************************************************************)
(* A model of the Anthropic-compatible gateway of codebuddy_proxy:         *)
(*   - the streaming response transcoder (handle_stream_passthrough),      *)
(*   - the quota ledger (QuotaManager) and the hybrid router / failover,   *)
(*   - the credential store (KeyManager), its refresh and its file watcher.*)
(* Each part has its own specification; the variables of the other parts   *)
(* stay at their initial value under it.                                   *)
(***************************************************************************)
EXTENDS Integers, Sequences, FiniteSets, TLC

(***************************************************************************)
(* Bounds of the model.                                                    *)
(***************************************************************************)
\* upstream data frames read by one streaming response
MaxFrames == 3
\* instants of the clock per day (the first of a day is 00:00)
UnitsPerDay == 2
\* the day the server starts on, counted from a Monday (5 is a Saturday)
FirstDay == 5
\* requests the ledger counts before the model stops counting
MaxRequests == 2
\* length of the sequences of set_if_newer calls
MaxCalls == 3
\* content blocks of the user message that is converted
MaxBlocks == 4

\* days of a week (quota_manager.py: (7 - now.weekday()) % 7)
DaysPerWeek == 7

\* anthropic_server.py: DEFAULT_MAX_CONTEXT, and MODEL_MAX_CONTEXT of every model
DEFAULT_MAX_CONTEXT == 200000
\* max_tokens the context check assumes for a request that sets none
DefaultMaxTokens == 32000
\* the least remaining budget with which a request is still sent
MinAvailableForOutput == 100

(***************************************************************************)
(* Part 1.  The streaming transcoder.                                      *)
(***************************************************************************)
VARIABLES
    spc,                     \* position of handle_stream_passthrough
    events,                  \* SSE events delivered to the caller, in order
    frames_read,             \* data frames consumed from the upstream
    tool_calls,              \* slot index -> accumulator
    content_block_started,
    thinking_block_started,
    text_block_index,
    thinking_block_index,
    finish_reason,
    next_block_index,
    stream_done

streamVars == <<spc, events, frames_read, tool_calls, content_block_started,
                thinking_block_started, text_block_index, thinking_block_index,
                finish_reason, next_block_index, stream_done>>

(***************************************************************************)
(* Part 2.  The quota ledger (QuotaManager), the router and the failover.  *)
(***************************************************************************)
VARIABLES
    current_provider,        \* "codebuddy", "hybrid" or "native", set by main
    now,                     \* wall clock, in units of 1/UnitsPerDay day; 0 is a Monday 00:00
    native_api,              \* QuotaManager._state["native_api"]
    quota_file,              \* content of the quota file: <<>> (no file) or <<state>>
    rpc,                     \* request thread -> position of its handler
    route,                   \* request thread -> upstream chosen for the request
    sock,                    \* request thread -> what reached the caller socket
    conn,                    \* request thread -> "open", or "broken" once a write failed
    answer,                  \* request thread -> what its quota read reported
    did_reset                \* request thread -> "reset" when its _check_auto_reset reset
                             \* the ledger, "marked" when a mark followed before its
                             \* report, else "no"

proxyVars == <<current_provider, now, native_api, quota_file, rpc, route, sock, conn,
               answer, did_reset>>

(***************************************************************************)
(* Part 3.  The credential store (KeyManager), refresh and file watcher.   *)
(***************************************************************************)
VARIABLES
    _key,                    \* KeyManager._key: <<>> (None) or <<key>>
    _refreshing,             \* KeyManager._refreshing
    now_ms,                  \* the clock needs_refresh and the refresh endpoint read
    config_file,             \* content of config.json: <<>> (no file) or <<content>>
    watcher_mtime,           \* last_mtime of file_watcher_loop against the file's mtime:
                             \* "none" (None), "same" or "differs"
    wpc,                     \* position of file_watcher_loop
    wkey,                    \* the key file_watcher_loop loaded
    kpc,                     \* refresh() caller -> position in refresh()
    new_key,                 \* refresh() caller -> the key its HTTP request returned
    outcome,                 \* refresh() caller -> how its call ended
    issued,                  \* refresh() caller -> its call issued an HTTP request
    sin_calls,               \* set_if_newer calls made by an API user
    sin_arg,                 \* the candidate of the latest of these calls
    sin_ret                  \* what the latest of these calls returned

keyVars == <<_key, _refreshing, now_ms, config_file, watcher_mtime, wpc, wkey, kpc,
             new_key, outcome, issued, sin_calls, sin_arg, sin_ret>>

(***************************************************************************)
(* Part 4.  The non-streaming response (handle_non_stream_passthrough).    *)
(***************************************************************************)
VARIABLES
    ns_pc,                   \* position of handle_non_stream_passthrough
    ns_frames_read,          \* data frames consumed from the upstream
    ns_tool_calls,           \* slot index -> [id, name, arguments]
    thinking_response,       \* a reasoning_content delta was collected
    full_response,           \* a content delta was collected
    ns_finish_reason,
    ns_sent                  \* what send_json_response wrote: <<>> or <<response>>

nonStreamVars == <<ns_pc, ns_frames_read, ns_tool_calls, thinking_response, full_response,
                   ns_finish_reason, ns_sent>>

(***************************************************************************)
(* Part 5.  convert_anthropic_messages on one user message.                *)
(***************************************************************************)
VARIABLES
    cv_pc,                   \* "idle", "called" or "done"
    cv_content,              \* the content list of the user message
    converted_messages       \* the messages the conversion returned

convertVars == <<cv_pc, cv_content, converted_messages>>

(***************************************************************************)
(* Part 6.  The quota file on disk (QuotaManager._save_state).             *)
(***************************************************************************)
VARIABLES
    qm_pc,                   \* the QuotaManager process: "idle", "save_open" (a mutator
                             \* changed _state and enters _save_state), "save_write"
                             \* (the file is open for writing), "down" (killed)
    qm_native_api,           \* QuotaManager._state["native_api"] of that process
    qm_now,                  \* wall clock, as `now` of Part 2
    qm_disk                  \* the quota file: [kind, state]

quotaFileVars == <<qm_pc, qm_native_api, qm_now, qm_disk>>

(***************************************************************************)
(* Part 7.  The credential file on disk (KeyManager.save_to_file).         *)
(***************************************************************************)
VARIABLES
    cs_pc,                   \* refresh() caller -> "idle", "open", "write", "replace",
                             \* "finally"
    cs_refreshing,           \* KeyManager._refreshing
    cs_key,                  \* refresh() caller -> the key it saves
    cs_config,               \* the file at config_path: [kind, state]
    cs_tmp,                  \* the file at config_path + ".tmp": [kind, state]
    cs_loaded                \* what the latest load_from_file of the watcher met:
                             \* "none", "missing", "torn" or "key"

credFileVars == <<cs_pc, cs_refreshing, cs_key, cs_config, cs_tmp, cs_loaded>>

(***************************************************************************)
(* Part 8.  The stored key and the records of its callers (get,            *)
(* set_if_newer): dict objects and references to them.                     *)
(***************************************************************************)
VARIABLES
    al_heap,                 \* dict object -> <<>> (not allocated) or <<its content>>
    al_key,                  \* KeyManager._key: <<>> (None) or <<object>>
    al_held,                 \* the objects an API user holds a reference to
    al_op                    \* the latest operation: "none", "new", "get",
                             \* "set_if_newer" or "mutate"

aliasVars == <<al_heap, al_key, al_held, al_op>>

(***************************************************************************)
(* Part 9.  The context check of a request for the legacy upstream.        *)
(***************************************************************************)
VARIABLES
    cx_pc,                   \* "received", "sent" (the body went to the legacy upstream)
                             \* or "rejected" (send_error_response)
    cx_path,                 \* "direct" (handle_messages) or "failover"
                             \* (_fallback_to_codebuddy)
    cx_input,                \* _estimate_tokens of the messages
    cx_request_max,          \* max_tokens of the request: <<>> (not set) or <<n>>
    cx_payload_max,          \* max_tokens of the body sent: <<>> (not set) or <<n>>
    cx_error                 \* <<>> or <<status, error type>> of the error response

contextVars == <<cx_pc, cx_path, cx_input, cx_request_max, cx_payload_max, cx_error>>

(***************************************************************************)
(* Part 10.  refresh_loop: the background thread that refreshes the key    *)
(* and counts the refreshes that returned False.                           *)
(***************************************************************************)
VARIABLES
    rl_pc,                   \* "check", "refresh", "count" or "sleep"
    rl_key,                  \* manager._key: <<>> (None) or <<key>>
    rl_file,                 \* config.json: <<>> or <<key>>
    rl_now,                  \* time.time() in ms
    retry_count,             \* the local retry_count of refresh_loop
    rl_result                \* what the last manager.refresh(config) did

loopVars == <<rl_pc, rl_key, rl_file, rl_now, retry_count, rl_result>>

(***************************************************************************)
(* Part 11.  The lock of the QuotaManager: request threads inside its      *)
(* methods, one step per statement that touches _state or the quota file.  *)
(***************************************************************************)
VARIABLES
    ql_lock,                 \* self._lock: "free" or the thread that holds it
    ql_state,                \* self._state["native_api"]
    ql_disk,                 \* the quota file
    ql_now,                  \* datetime.now()
    ql_pc,                   \* per thread: "idle", "locked", "save_open", "save_write",
                             \* "release" or "read"
    ql_op                    \* per thread: the method it is in

lockVars == <<ql_lock, ql_state, ql_disk, ql_now, ql_pc, ql_op>>

(***************************************************************************)
(* Part 1, definitions.                                                    *)
(***************************************************************************)
\* ---- input alphabets of the upstream -----------------------------------
ToolSlots == {0, 1}
\* a tool call id as a sequence of tokens; <<>> is the absent / empty id
ToolIds == {<<>>, <<"call_a">>}
ToolNames == {"", "f"}
\* an arguments fragment as a sequence of characters; <<>> is absent / empty
Fragments == {<<>>, <<"{">>, <<"}">>, <<" ">>}
\* finish_reason values of a choice; "" is absent
FinishReasons == {"", "stop", "length", "tool_calls", "content_filter"}

ToolDeltas == [index : ToolSlots, id : ToolIds, name : ToolNames, arguments : Fragments]

NoDelta == [thinking |-> FALSE, content |-> FALSE, tool_calls |-> <<>>, finish_reason |-> ""]

\* The frames the upstream may send.  ProcessFrame handles every combination
\* of parts; a frame with several parts is handled exactly as its parts in
\* the fixed order thinking, content, tool_calls, finish_reason.
Frames ==
    {[NoDelta EXCEPT !.thinking = TRUE], [NoDelta EXCEPT !.content = TRUE],
     [NoDelta EXCEPT !.thinking = TRUE, !.content = TRUE]}
    \cup {[NoDelta EXCEPT !.finish_reason = r] : r \in FinishReasons}
    \cup {[NoDelta EXCEPT !.tool_calls = <<tc>>] : tc \in ToolDeltas}
    \cup {[thinking |-> TRUE, content |-> TRUE,
           tool_calls |-> <<[index |-> 1, id |-> <<"call_a">>, name |-> "f", arguments |-> <<"{">>],
                            [index |-> 0, id |-> <<"call_a">>, name |-> "f", arguments |-> <<>>]>>,
           finish_reason |-> "tool_calls"]}

\* ---- events ---------------------------------------------------------------
Ev(type, index, kind, data) == [type |-> type, index |-> index, kind |-> kind, data |-> data]

\* ---- normalize_tool_call_id ----------------------------------------------
normalize_tool_call_id(tool_id) ==
    IF tool_id = <<>> THEN <<"toolu_", "uuid">>
    ELSE IF Head(tool_id) = "toolu_" THEN tool_id
    ELSE <<"toolu_">> \o tool_id

\* ---- str.rstrip / str.lstrip / endswith / startswith ---------------------
RECURSIVE rstrip(_)
rstrip(s) == IF s # <<>> /\ s[Len(s)] = " " THEN rstrip(SubSeq(s, 1, Len(s) - 1)) ELSE s

RECURSIVE lstrip(_)
lstrip(s) == IF s # <<>> /\ Head(s) = " " THEN lstrip(Tail(s)) ELSE s

endswith(s, c) == s # <<>> /\ s[Len(s)] = c

startswith(s, c) == s # <<>> /\ Head(s) = c

\* ---- the locals of the handler as one value ------------------------------
Locals ==
    [tool_calls |-> tool_calls,
     content_block_started |-> content_block_started,
     thinking_block_started |-> thinking_block_started,
     text_block_index |-> text_block_index,
     thinking_block_index |-> thinking_block_index,
     finish_reason |-> finish_reason,
     next_block_index |-> next_block_index,
     out |-> <<>>]

NewSlot == [id |-> <<>>, name |-> "", arguments |-> <<>>, started |-> FALSE,
            block_index |-> -1, completed |-> FALSE]

\* thinking / reasoning_content part of a delta
DoThinking(L, f) ==
    IF ~f.thinking THEN L
    ELSE LET L1 == IF ~L.thinking_block_started
                   THEN [L EXCEPT !.thinking_block_index = L.next_block_index,
                                  !.out = @ \o <<Ev("content_block_start", L.next_block_index, "thinking", <<>>)>>,
                                  !.thinking_block_started = TRUE,
                                  !.next_block_index = @ + 1]
                   ELSE L
         IN [L1 EXCEPT !.out = @ \o <<Ev("content_block_delta", L1.thinking_block_index, "thinking_delta", <<>>)>>]

\* variant: the text block has the fixed index 1, after a thinking block
DoContentIndexByType(L, f) ==
    IF ~f.content THEN L
    ELSE LET L1 == IF ~L.content_block_started
                   THEN [L EXCEPT !.text_block_index = 1,
                                  !.out = @ \o <<Ev("content_block_start", 1, "text", <<>>)>>,
                                  !.content_block_started = TRUE,
                                  !.next_block_index = @ + 1]
                   ELSE L
         IN [L1 EXCEPT !.out = @ \o <<Ev("content_block_delta", L1.text_block_index, "text_delta", <<>>)>>]

\* content (text) part of a delta
DoContent(L, f) ==
    IF ~f.content THEN L
    ELSE LET L1 == IF ~L.content_block_started
                   THEN [L EXCEPT !.text_block_index = L.next_block_index,
                                  !.out = @ \o <<Ev("content_block_start", L.next_block_index, "text", <<>>)>>,
                                  !.content_block_started = TRUE,
                                  !.next_block_index = @ + 1]
                   ELSE L
         IN [L1 EXCEPT !.out = @ \o <<Ev("content_block_delta", L1.text_block_index, "text_delta", <<>>)>>]

\* multi-object detection: the accumulated arguments end with "}" and the new
\* fragment starts with "{"
MultiObject(current_args, new_args) ==
    endswith(rstrip(current_args), "}") /\ startswith(lstrip(new_args), "{")

\* variant: the second object's first fragment is dropped but the slot is not
\* marked completed
AccumulateNoMark(slot, tc) ==
    LET s1 == IF tc.id # <<>> THEN [slot EXCEPT !.id = normalize_tool_call_id(tc.id)] ELSE slot
        s2 == IF tc.name # "" THEN [s1 EXCEPT !.name = tc.name] ELSE s1
    IN IF tc.arguments = <<>> THEN s2
       ELSE IF MultiObject(s2.arguments, tc.arguments) THEN s2
       ELSE IF ~s2.completed THEN [s2 EXCEPT !.arguments = @ \o tc.arguments]
       ELSE s2

\* accumulation of id, name and arguments of one tool_calls entry
Accumulate(slot, tc) ==
    LET s1 == IF tc.id # <<>> THEN [slot EXCEPT !.id = normalize_tool_call_id(tc.id)] ELSE slot
        s2 == IF tc.name # "" THEN [s1 EXCEPT !.name = tc.name] ELSE s1
    IN IF tc.arguments = <<>> THEN s2
       ELSE IF MultiObject(s2.arguments, tc.arguments) THEN [s2 EXCEPT !.completed = TRUE]
       ELSE IF ~s2.completed THEN [s2 EXCEPT !.arguments = @ \o tc.arguments]
       ELSE s2

ShouldStartAgain(slot) == slot.id # <<>> /\ slot.name # ""

\* a slot starts its block once id and name are both known
ShouldStart(slot) == slot.id # <<>> /\ slot.name # "" /\ ~slot.started

\* variant: the fragment of the delta that starts the block is sent again
\* after the accumulated arguments ("if" in place of "elif")
DoToolCallFragmentAgain(L, tc) ==
    LET idx == tc.index
        tcs0 == IF idx \in DOMAIN L.tool_calls THEN L.tool_calls
                ELSE L.tool_calls @@ (idx :> NewSlot)
        slot == Accumulate(tcs0[idx], tc)
    IN IF ShouldStart(slot)
       THEN LET started == [slot EXCEPT !.block_index = L.next_block_index, !.started = TRUE]
                start == <<Ev("content_block_start", started.block_index, "tool_use", normalize_tool_call_id(started.id))>>
                flush == IF started.arguments # <<>>
                         THEN <<Ev("content_block_delta", started.block_index, "input_json_delta", started.arguments)>>
                         ELSE <<>>
                again == IF tc.arguments # <<>> /\ ~started.completed
                         THEN <<Ev("content_block_delta", started.block_index, "input_json_delta", tc.arguments)>>
                         ELSE <<>>
            IN [L EXCEPT !.tool_calls = [tcs0 EXCEPT ![idx] = started],
                         !.next_block_index = @ + 1,
                         !.out = @ \o start \o flush \o again]
       ELSE IF tc.arguments # <<>> /\ slot.started /\ ~slot.completed
       THEN [L EXCEPT !.tool_calls = [tcs0 EXCEPT ![idx] = slot],
                      !.out = @ \o <<Ev("content_block_delta", slot.block_index, "input_json_delta", tc.arguments)>>]
       ELSE [L EXCEPT !.tool_calls = [tcs0 EXCEPT ![idx] = slot]]

\* variant: the accumulated arguments are sent before the block is started
DoToolCallFlushFirst(L, tc) ==
    LET idx == tc.index
        tcs0 == IF idx \in DOMAIN L.tool_calls THEN L.tool_calls
                ELSE L.tool_calls @@ (idx :> NewSlot)
        slot == Accumulate(tcs0[idx], tc)
    IN IF ShouldStart(slot)
       THEN LET started == [slot EXCEPT !.block_index = L.next_block_index, !.started = TRUE]
                start == <<Ev("content_block_start", started.block_index, "tool_use", normalize_tool_call_id(started.id))>>
                flush == IF started.arguments # <<>>
                         THEN <<Ev("content_block_delta", started.block_index, "input_json_delta", started.arguments)>>
                         ELSE <<>>
            IN [L EXCEPT !.tool_calls = [tcs0 EXCEPT ![idx] = started],
                         !.next_block_index = @ + 1,
                         !.out = @ \o flush \o start]
       ELSE IF tc.arguments # <<>> /\ slot.started /\ ~slot.completed
       THEN [L EXCEPT !.tool_calls = [tcs0 EXCEPT ![idx] = slot],
                      !.out = @ \o <<Ev("content_block_delta", slot.block_index, "input_json_delta", tc.arguments)>>]
       ELSE [L EXCEPT !.tool_calls = [tcs0 EXCEPT ![idx] = slot]]

\* one entry of delta.tool_calls
DoToolCall(L, tc) ==
    LET idx == tc.index
        tcs0 == IF idx \in DOMAIN L.tool_calls THEN L.tool_calls
                ELSE L.tool_calls @@ (idx :> NewSlot)
        slot == Accumulate(tcs0[idx], tc)
    IN IF ShouldStart(slot)
       THEN LET started == [slot EXCEPT !.block_index = L.next_block_index, !.started = TRUE]
                start == <<Ev("content_block_start", started.block_index, "tool_use", normalize_tool_call_id(started.id))>>
                flush == IF started.arguments # <<>>
                         THEN <<Ev("content_block_delta", started.block_index, "input_json_delta", started.arguments)>>
                         ELSE <<>>
            IN [L EXCEPT !.tool_calls = [tcs0 EXCEPT ![idx] = started],
                         !.next_block_index = @ + 1,
                         !.out = @ \o start \o flush]
       ELSE IF tc.arguments # <<>> /\ slot.started /\ ~slot.completed
       THEN [L EXCEPT !.tool_calls = [tcs0 EXCEPT ![idx] = slot],
                      !.out = @ \o <<Ev("content_block_delta", slot.block_index, "input_json_delta", tc.arguments)>>]
       ELSE [L EXCEPT !.tool_calls = [tcs0 EXCEPT ![idx] = slot]]

RECURSIVE DoToolCalls(_, _)
DoToolCalls(L, tcs) ==
    IF tcs = <<>> THEN L ELSE DoToolCalls(DoToolCall(L, Head(tcs)), Tail(tcs))

DoFinish(L, f) ==
    IF f.finish_reason # "" THEN [L EXCEPT !.finish_reason = f.finish_reason] ELSE L

\* the body of the try block for one well-formed data frame
ProcessFrame(L, f) == DoFinish(DoToolCalls(DoContent(DoThinking(L, f), f), f.tool_calls), f)

\* ---- closing the blocks after the read loop ------------------------------
RECURSIVE SortedSlots(_)
SortedSlots(S) ==
    IF S = {} THEN <<>>
    ELSE LET m == CHOOSE x \in S : \A y \in S : x <= y
         IN <<m>> \o SortedSlots(S \ {m})

RECURSIVE ToolStops(_, _)
ToolStops(tcs, order) ==
    IF order = <<>> THEN <<>>
    ELSE (IF tcs[Head(order)].started
          THEN <<Ev("content_block_stop", tcs[Head(order)].block_index, "none", <<>>)>>
          ELSE <<>>) \o ToolStops(tcs, Tail(order))

BlockStops ==
    (IF thinking_block_started THEN <<Ev("content_block_stop", thinking_block_index, "none", <<>>)>> ELSE <<>>)
    \o (IF content_block_started THEN <<Ev("content_block_stop", text_block_index, "none", <<>>)>> ELSE <<>>)
    \o ToolStops(tool_calls, SortedSlots(DOMAIN tool_calls))

AnyToolStarted == \E i \in DOMAIN tool_calls : tool_calls[i].started

\* variant: finish_reason decides first, started tool blocks only after it
StopReasonFinishFirst ==
    IF finish_reason = "stop" THEN "end_turn"
    ELSE IF finish_reason = "length" THEN "max_tokens"
    ELSE IF finish_reason = "tool_calls" \/ AnyToolStarted THEN "tool_use"
    ELSE "end_turn"

StopReason ==
    IF AnyToolStarted THEN "tool_use"
    ELSE IF finish_reason = "stop" THEN "end_turn"
    ELSE IF finish_reason = "length" THEN "max_tokens"
    ELSE IF finish_reason = "tool_calls" THEN "tool_use"
    ELSE "end_turn"

MessageEnd == <<Ev("message_delta", -1, StopReason, <<>>), Ev("message_stop", -1, "none", <<>>)>>

CloseEventsDeltaFirst ==
    <<Ev("message_delta", -1, StopReason, <<>>)>> \o BlockStops \o <<Ev("message_stop", -1, "none", <<>>)>>

\* everything written after the read loop, in order
CloseEvents == BlockStops \o MessageEnd

ErrorEvent(kind) == Ev("error", -1, kind, <<>>)

\* ---- the upstream's answers and is_quota_exhausted_error --------------------
\* bodies: one without a quota keyword, one with an English keyword, one with a
\* vendor keyword
Bodies == {"internal error", "Rate Limit reached", "vendor: quota used up"}

english_keyword_bodies == {"Rate Limit reached"}

\* the text the non-streaming handler puts before a quota error body; it
\* contains a vendor keyword
QuotaExceptionPrefix == "quota used up (HTTP)"

chinese_keyword_bodies == {"vendor: quota used up", QuotaExceptionPrefix}

is_quota_exhausted_error(status_code, error_body) ==
    \/ status_code = 429
    \/ error_body \in english_keyword_bodies
    \/ error_body \in chinese_keyword_bodies

\* the status line of the streaming response: send_response(200) comes before
\* message_start, and nothing replaces it afterwards
StreamStatusLine == IF events = <<>> THEN 0 ELSE 200

\* ---- actions ---------------------------------------------------------------
StreamInit ==
    /\ spc = "idle"
    /\ events = <<>>
    /\ frames_read = 0
    /\ tool_calls = <<>>
    /\ content_block_started = FALSE
    /\ thinking_block_started = FALSE
    /\ text_block_index = -1
    /\ thinking_block_index = -1
    /\ finish_reason = "stop"
    /\ next_block_index = 0
    /\ stream_done = FALSE

\* response headers and message_start are written before the upstream call
StreamStart ==
    /\ spc = "idle"
    /\ events' = events \o <<Ev("message_start", -1, "none", <<>>)>>
    /\ spc' = "connecting"
    /\ UNCHANGED <<frames_read, tool_calls, content_block_started, thinking_block_started,
                   text_block_index, thinking_block_index, finish_reason, next_block_index,
                   stream_done>>
    /\ UNCHANGED <<proxyVars, keyVars, nonStreamVars, convertVars, quotaFileVars, credFileVars, aliasVars, contextVars, loopVars, lockVars>>

\* the caller is gone when headers or message_start are written: the exception
\* leaves the handler (these writes are outside the try block)
StreamStartBrokenPipe ==
    /\ spc = "idle"
    /\ spc' = "raised"
    /\ UNCHANGED <<events, frames_read, tool_calls, content_block_started,
                   thinking_block_started, text_block_index, thinking_block_index,
                   finish_reason, next_block_index, stream_done>>
    /\ UNCHANGED <<proxyVars, keyVars, nonStreamVars, convertVars, quotaFileVars, credFileVars, aliasVars, contextVars, loopVars, lockVars>>

\* urlopen succeeds
UpstreamOpen ==
    /\ spc = "connecting"
    /\ spc' = "reading"
    /\ UNCHANGED <<events, frames_read, tool_calls, content_block_started,
                   thinking_block_started, text_block_index, thinking_block_index,
                   finish_reason, next_block_index, stream_done>>
    /\ UNCHANGED <<proxyVars, keyVars, nonStreamVars, convertVars, quotaFileVars, credFileVars, aliasVars, contextVars, loopVars, lockVars>>

\* urlopen raises HTTPError: an error event (rate_limit_error or api_error)
UpstreamHTTPError ==
    /\ spc = "connecting"
    /\ \E status_code \in {429, 500}, error_body \in Bodies :
          events' = events \o <<ErrorEvent(IF is_quota_exhausted_error(status_code, error_body)
                                            THEN "rate_limit_error" ELSE "api_error")>>
    /\ spc' = "returned"
    /\ UNCHANGED <<frames_read, tool_calls, content_block_started, thinking_block_started,
                   text_block_index, thinking_block_index, finish_reason, next_block_index,
                   stream_done>>
    /\ UNCHANGED <<proxyVars, keyVars, nonStreamVars, convertVars, quotaFileVars, credFileVars, aliasVars, contextVars, loopVars, lockVars>>

\* variant: an exception after the response has started ends it without an
\* error event
UpstreamExceptionSilent ==
    /\ spc \in {"connecting", "reading"}
    /\ events' = events
    /\ spc' = "returned"
    /\ UNCHANGED <<frames_read, tool_calls, content_block_started, thinking_block_started,
                   text_block_index, thinking_block_index, finish_reason, next_block_index,
                   stream_done>>
    /\ UNCHANGED <<proxyVars, keyVars, nonStreamVars, convertVars, quotaFileVars, credFileVars, aliasVars, contextVars, loopVars, lockVars>>

\* urlopen or a read raises another exception (timeout, URLError): the
\* generic handler writes api_error
UpstreamException ==
    /\ spc \in {"connecting", "reading"}
    /\ events' = events \o <<ErrorEvent("api_error")>>
    /\ spc' = "returned"
    /\ UNCHANGED <<frames_read, tool_calls, content_block_started, thinking_block_started,
                   text_block_index, thinking_block_index, finish_reason, next_block_index,
                   stream_done>>
    /\ UNCHANGED <<proxyVars, keyVars, nonStreamVars, convertVars, quotaFileVars, credFileVars, aliasVars, contextVars, loopVars, lockVars>>

\* the upstream failed and the write of the error event fails too (the caller
\* is gone): the inner try block catches it and the handler returns
ErrorEventBrokenPipe ==
    /\ spc \in {"connecting", "reading"}
    /\ spc' = "disconnected"
    /\ UNCHANGED <<events, frames_read, tool_calls, content_block_started,
                   thinking_block_started, text_block_index, thinking_block_index,
                   finish_reason, next_block_index, stream_done>>
    /\ UNCHANGED <<proxyVars, keyVars, nonStreamVars, convertVars, quotaFileVars, credFileVars, aliasVars, contextVars, loopVars, lockVars>>

\* one well-formed data frame
ReadFrame ==
    /\ spc = "reading"
    /\ frames_read < MaxFrames
    /\ \E f \in Frames :
          LET L == ProcessFrame(Locals, f)
          IN /\ events' = events \o L.out
             /\ tool_calls' = L.tool_calls
             /\ content_block_started' = L.content_block_started
             /\ thinking_block_started' = L.thinking_block_started
             /\ text_block_index' = L.text_block_index
             /\ thinking_block_index' = L.thinking_block_index
             /\ finish_reason' = L.finish_reason
             /\ next_block_index' = L.next_block_index
    /\ frames_read' = frames_read + 1
    /\ UNCHANGED <<spc, stream_done>>
    /\ UNCHANGED <<proxyVars, keyVars, nonStreamVars, convertVars, quotaFileVars, credFileVars, aliasVars, contextVars, loopVars, lockVars>>

\* a data frame that is not JSON: json.JSONDecodeError, continue
ReadBadJson ==
    /\ spc = "reading"
    /\ frames_read < MaxFrames
    /\ frames_read' = frames_read + 1
    /\ UNCHANGED <<spc, events, tool_calls, content_block_started, thinking_block_started,
                   text_block_index, thinking_block_index, finish_reason, next_block_index,
                   stream_done>>
    /\ UNCHANGED <<proxyVars, keyVars, nonStreamVars, convertVars, quotaFileVars, credFileVars, aliasVars, contextVars, loopVars, lockVars>>

\* variant: the error event is written and the read loop goes on
ReadBadShapeContinue ==
    /\ spc = "reading"
    /\ frames_read < MaxFrames
    /\ frames_read' = frames_read + 1
    /\ events' = events \o <<ErrorEvent("api_error")>>
    /\ spc' = "reading"
    /\ UNCHANGED <<tool_calls, content_block_started, thinking_block_started,
                   text_block_index, thinking_block_index, finish_reason, next_block_index,
                   stream_done>>
    /\ UNCHANGED <<proxyVars, keyVars, nonStreamVars, convertVars, quotaFileVars, credFileVars, aliasVars, contextVars, loopVars, lockVars>>

\* a data frame of valid JSON with an unexpected shape (an empty choices list,
\* a value that is not an object): IndexError or AttributeError is not a
\* JSONDecodeError, the generic handler writes api_error and returns
ReadBadShape ==
    /\ spc = "reading"
    /\ frames_read < MaxFrames
    /\ frames_read' = frames_read + 1
    /\ events' = events \o <<ErrorEvent("api_error")>>
    /\ spc' = "returned"
    /\ UNCHANGED <<tool_calls, content_block_started, thinking_block_started,
                   text_block_index, thinking_block_index, finish_reason, next_block_index,
                   stream_done>>
    /\ UNCHANGED <<proxyVars, keyVars, nonStreamVars, convertVars, quotaFileVars, credFileVars, aliasVars, contextVars, loopVars, lockVars>>

\* a write of a frame's events fails (BrokenPipeError, ConnectionResetError):
\* a strict prefix of them was delivered, the handler returns silently
ReadFrameBrokenPipe ==
    /\ spc = "reading"
    /\ frames_read < MaxFrames
    /\ \E f \in Frames :
          LET L == ProcessFrame(Locals, f)
          IN /\ L.out # <<>>
             /\ \E k \in 0..(Len(L.out) - 1) : events' = events \o SubSeq(L.out, 1, k)
    /\ spc' = "disconnected"
    /\ frames_read' = frames_read + 1
    /\ UNCHANGED <<tool_calls, content_block_started, thinking_block_started,
                   text_block_index, thinking_block_index, finish_reason, next_block_index,
                   stream_done>>
    /\ UNCHANGED <<proxyVars, keyVars, nonStreamVars, convertVars, quotaFileVars, credFileVars, aliasVars, contextVars, loopVars, lockVars>>

\* data: [DONE]
ReadDone ==
    /\ spc = "reading"
    /\ stream_done' = TRUE
    /\ spc' = "closing"
    /\ UNCHANGED <<events, frames_read, tool_calls, content_block_started,
                   thinking_block_started, text_block_index, thinking_block_index,
                   finish_reason, next_block_index>>
    /\ UNCHANGED <<proxyVars, keyVars, nonStreamVars, convertVars, quotaFileVars, credFileVars, aliasVars, contextVars, loopVars, lockVars>>

\* the upstream ends without [DONE]: response.read returns b""
ReadEof ==
    /\ spc = "reading"
    /\ spc' = "closing"
    /\ UNCHANGED <<events, frames_read, tool_calls, content_block_started,
                   thinking_block_started, text_block_index, thinking_block_index,
                   finish_reason, next_block_index, stream_done>>
    /\ UNCHANGED <<proxyVars, keyVars, nonStreamVars, convertVars, quotaFileVars, credFileVars, aliasVars, contextVars, loopVars, lockVars>>

\* content_block_stop for the open blocks, then message_delta and message_stop
Close ==
    /\ spc = "closing"
    /\ events' = events \o CloseEvents
    /\ spc' = "done"
    /\ UNCHANGED <<frames_read, tool_calls, content_block_started, thinking_block_started,
                   text_block_index, thinking_block_index, finish_reason, next_block_index,
                   stream_done>>
    /\ UNCHANGED <<proxyVars, keyVars, nonStreamVars, convertVars, quotaFileVars, credFileVars, aliasVars, contextVars, loopVars, lockVars>>

\* a write fails while the blocks are closed (inside the try block: silent
\* return) or while message_delta / message_stop are written (outside: raised)
CloseBrokenPipe ==
    /\ spc = "closing"
    /\ \E k \in 0..(Len(BlockStops) + 1) :
          /\ events' = events \o SubSeq(CloseEvents, 1, k)
          /\ spc' = IF k < Len(BlockStops) THEN "disconnected" ELSE "raised"
    /\ UNCHANGED <<frames_read, tool_calls, content_block_started, thinking_block_started,
                   text_block_index, thinking_block_index, finish_reason, next_block_index,
                   stream_done>>
    /\ UNCHANGED <<proxyVars, keyVars, nonStreamVars, convertVars, quotaFileVars, credFileVars, aliasVars, contextVars, loopVars, lockVars>>

\* handle_messages: a BrokenPipeError that left handle_stream_passthrough is
\* caught by "except Exception", and send_error_response tries to write a 500
\* status line and an api_error body to the socket that just failed
StreamErrorResponse ==
    /\ spc = "raised"
    /\ spc' = "send_error_response"
    /\ UNCHANGED <<events, frames_read, tool_calls, content_block_started,
                   thinking_block_started, text_block_index, thinking_block_index,
                   finish_reason, next_block_index, stream_done>>
    /\ UNCHANGED <<proxyVars, keyVars, nonStreamVars, convertVars, quotaFileVars, credFileVars, aliasVars, contextVars, loopVars, lockVars>>

StreamNext ==
    \/ StreamStart
    \/ StreamStartBrokenPipe
    \/ UpstreamOpen
    \/ UpstreamHTTPError
    \/ UpstreamException
    \/ ErrorEventBrokenPipe
    \/ ReadFrame
    \/ ReadBadJson
    \/ ReadBadShape
    \/ ReadFrameBrokenPipe
    \/ ReadDone
    \/ ReadEof
    \/ Close
    \/ CloseBrokenPipe
    \/ StreamErrorResponse

(***************************************************************************)
(* Part 2, definitions and actions.                                        *)
(***************************************************************************)
\* request threads served concurrently (ThreadedHTTPServer), one request each
Threads == {"t1", "t2"}

\* ---- Optional values and timestamps ---------------------------------------
\* None is <<>>; a value x is <<x>>.  datetime.isoformat() of instant t is <<t>>,
\* a string datetime.fromisoformat() rejects is <<t, t>>.
None == <<>>

Some(x) == <<x>>

isoformat(t) == <<t>>

Unparsable == <<0, 0>>

IsIsoFormat(x) == Len(x) = 1

fromisoformat(x) == x[1]

\* the clock at the start of the server
StartTime == FirstDay * UnitsPerDay

\* ---- QuotaManager -----------------------------------------------------------
_get_default_state ==
    [quota_exhausted |-> FALSE, exhausted_at |-> None, reset_at |-> None,
     last_error |-> None, request_count |-> 0, last_request_at |-> None]

weekday(t) == (t \div UnitsPerDay) % DaysPerWeek

\* variant: the time of day is kept
_get_next_monday_midnight_same_hour(t) ==
    LET d == (DaysPerWeek - weekday(t)) % DaysPerWeek
        days_until_monday == IF d = 0 THEN DaysPerWeek ELSE d
    IN t + days_until_monday * UnitsPerDay

\* variant: a Monday counts as its own next Monday
_get_next_monday_midnight_no_wrap(t) ==
    LET days_until_monday == (DaysPerWeek - weekday(t)) % DaysPerWeek
    IN (t - (t % UnitsPerDay)) + days_until_monday * UnitsPerDay

\* the next Monday 00:00, a full week ahead when today is a Monday
_get_next_monday_midnight(t) ==
    LET d == (DaysPerWeek - weekday(t)) % DaysPerWeek
        days_until_monday == IF d = 0 THEN DaysPerWeek ELSE d
    IN (t - (t % UnitsPerDay)) + days_until_monday * UnitsPerDay

\* the model follows the clock over the first weekly reset, to the end of
\* that Monday
Horizon == _get_next_monday_midnight(StartTime) + UnitsPerDay

\* the condition under which _check_auto_reset resets
AutoResetDue(st, t) ==
    /\ st.quota_exhausted
    /\ st.reset_at # None
    /\ IsIsoFormat(st.reset_at)
    /\ t >= fromisoformat(st.reset_at)

\* variant: the check never resets
_check_auto_reset_never(st, t) == st

\* the ledger after _check_auto_reset
_check_auto_reset(st, t) == IF AutoResetDue(st, t) THEN _get_default_state ELSE st

\* variant: the reset is due a week after the mark
mark_native_exhausted_in_a_week(st, t, error_message) ==
    [st EXCEPT !.quota_exhausted = TRUE,
               !.exhausted_at = isoformat(t),
               !.reset_at = isoformat(t + DaysPerWeek * UnitsPerDay),
               !.last_error = Some(error_message)]

\* the ledger after mark_native_exhausted
mark_native_exhausted(st, t, error_message) ==
    [st EXCEPT !.quota_exhausted = TRUE,
               !.exhausted_at = isoformat(t),
               !.reset_at = isoformat(_get_next_monday_midnight(t)),
               !.last_error = Some(error_message)]

\* the ledger after record_request
record_request(st, t) ==
    [st EXCEPT !.request_count = @ + 1, !.last_request_at = isoformat(t)]

\* ---- the native upstream's answers -----------------------------------------
NativeAnswers == [status_code : {200, 429, 500}, body : Bodies]

\* ---- what handlers write to the caller socket -------------------------------
W(src, part) == [src |-> src, part |-> part]

NativeResponse == <<W("native", "status"), W("native", "body")>>

LegacyResponse == <<W("legacy", "status"), W("legacy", "body")>>

\* send_error_response of the handler of path `src`
ErrorResponse(src) == <<W(src, "error_status"), W(src, "error_body")>>

StatusResponse == <<W("quota", "status"), W("quota", "body")>>

Prefixes(s) == {SubSeq(s, 1, k) : k \in 0..Len(s)}

StrictPrefixes(s) == {SubSeq(s, 1, k) : k \in 0..(Len(s) - 1)}

\* the state files a starting QuotaManager may find: none, or one an earlier
\* run wrote: the default state, a mark of the instant before the start, a
\* mark of more than a week before it
LoadableFiles ==
    {<<>>, <<_get_default_state>>}
    \cup {<<mark_native_exhausted(_get_default_state, t, "Rate Limit reached")>> :
             t \in {StartTime - 1, StartTime - DaysPerWeek * UnitsPerDay - 1}}

_load_state(file) == IF file = <<>> THEN _get_default_state ELSE file[1]

\* ---- initial state: main() has built the QuotaManager ----------------------
\* __init__ loads the file and runs _check_auto_reset; the other modes have no
\* QuotaManager and the ledger variables keep the default value
ProxyStart(provider, file) ==
    /\ current_provider = provider
    /\ now = StartTime
    /\ native_api = _check_auto_reset(_load_state(file), StartTime)
    /\ quota_file = IF AutoResetDue(_load_state(file), StartTime)
                    THEN <<_get_default_state>> ELSE file
    /\ rpc = [t \in Threads |-> "idle"]
    /\ route = [t \in Threads |-> "none"]
    /\ sock = [t \in Threads |-> <<>>]
    /\ conn = [t \in Threads |-> "open"]
    /\ answer = [t \in Threads |-> "none"]
    /\ did_reset = [t \in Threads |-> "no"]

\* main, --provider hybrid: the QuotaManager loads whatever quota file is there
ProxyHybridStart == \E file \in LoadableFiles : ProxyStart("hybrid", file)

ProxyInit ==
    \/ \E provider \in {"codebuddy", "native"} : ProxyStart(provider, <<>>)
    \/ \E file \in LoadableFiles : ProxyStart("hybrid", file)

Tick ==
    /\ now < Horizon
    /\ now' = now + 1
    /\ UNCHANGED <<current_provider, native_api, quota_file, rpc, route, sock, conn,
                   answer, did_reset>>
    /\ UNCHANGED <<streamVars, keyVars, nonStreamVars, convertVars, quotaFileVars, credFileVars, aliasVars, contextVars, loopVars, lockVars>>

\* the thread of a finished request serves the next connection
NextRequest(t) ==
    /\ rpc[t] \in {"done", "crashed"}
    /\ rpc' = [rpc EXCEPT ![t] = "idle"]
    /\ route' = [route EXCEPT ![t] = "none"]
    /\ sock' = [sock EXCEPT ![t] = <<>>]
    /\ conn' = [conn EXCEPT ![t] = "open"]
    /\ answer' = [answer EXCEPT ![t] = "none"]
    /\ did_reset' = [did_reset EXCEPT ![t] = "no"]
    /\ UNCHANGED <<current_provider, now, native_api, quota_file>>
    /\ UNCHANGED <<streamVars, keyVars, nonStreamVars, convertVars, quotaFileVars, credFileVars, aliasVars, contextVars, loopVars, lockVars>>

\* a handler writes `resp` to the caller socket: all of it, or, when the caller
\* is gone, a strict prefix followed by BrokenPipeError / ConnectionResetError;
\* whatever a handler writes after that reaches nobody
Respond(t, resp) ==
    \/ /\ sock' = [sock EXCEPT ![t] = @ \o resp]
       /\ conn' = conn
    \/ /\ \E part \in StrictPrefixes(resp) : sock' = [sock EXCEPT ![t] = @ \o part]
       /\ conn' = [conn EXCEPT ![t] = "broken"]

\* ---- QuotaManager critical sections, as steps of request thread t ------------
\* _check_auto_reset, with _reset_native and _save_state when it is due
CheckAutoReset(t) ==
    /\ native_api' = _check_auto_reset(native_api, now)
    /\ quota_file' = IF AutoResetDue(native_api, now) THEN <<native_api'>> ELSE quota_file
    /\ did_reset' = [did_reset EXCEPT ![t] = IF AutoResetDue(native_api, now) THEN "reset" ELSE "no"]

\* record_request with _save_state
RecordRequest ==
    /\ native_api.request_count < MaxRequests
    /\ native_api' = record_request(native_api, now)
    /\ quota_file' = <<native_api'>>

\* mark_native_exhausted with _save_state; a thread between its auto-reset and
\* its report has been overtaken
MarkNativeExhausted(error_body) ==
    /\ native_api' = mark_native_exhausted(native_api, now, error_body)
    /\ quota_file' = <<native_api'>>
    /\ did_reset' = [u \in Threads |->
                        IF did_reset[u] = "reset" /\ rpc[u] \in {"route_read", "status_read"}
                        THEN "marked" ELSE did_reset[u]]

\* what the second critical section of is_native_available / get_status reports
Report == IF native_api.quota_exhausted THEN "exhausted" ELSE "available"

\* ---- POST /v1/messages: get_active_client_and_provider ----------------------
\* hybrid, is_native_available, first critical section
RouteCheck(t) ==
    /\ rpc[t] = "idle"
    /\ current_provider = "hybrid"
    /\ CheckAutoReset(t)
    /\ rpc' = [rpc EXCEPT ![t] = "route_read"]
    /\ UNCHANGED <<current_provider, now, route, sock, conn, answer>>
    /\ UNCHANGED <<streamVars, keyVars, nonStreamVars, convertVars, quotaFileVars, credFileVars, aliasVars, contextVars, loopVars, lockVars>>

\* variant: the choice ignores the ledger
RouteReadAlwaysNative(t) ==
    /\ rpc[t] = "route_read"
    /\ answer' = [answer EXCEPT ![t] = Report]
    /\ route' = [route EXCEPT ![t] = "native"]
    /\ rpc' = [rpc EXCEPT ![t] = "native_begin"]
    /\ UNCHANGED <<current_provider, now, native_api, quota_file, sock, conn, did_reset>>
    /\ UNCHANGED <<streamVars, keyVars, nonStreamVars, convertVars, quotaFileVars, credFileVars, aliasVars, contextVars, loopVars, lockVars>>

\* hybrid, is_native_available, second critical section, and the choice
RouteRead(t) ==
    /\ rpc[t] = "route_read"
    /\ answer' = [answer EXCEPT ![t] = Report]
    /\ route' = [route EXCEPT ![t] = IF Report = "available" THEN "native" ELSE "codebuddy"]
    /\ rpc' = [rpc EXCEPT ![t] = IF Report = "available" THEN "native_begin" ELSE "legacy_begin"]
    /\ UNCHANGED <<current_provider, now, native_api, quota_file, sock, conn, did_reset>>
    /\ UNCHANGED <<streamVars, keyVars, nonStreamVars, convertVars, quotaFileVars, credFileVars, aliasVars, contextVars, loopVars, lockVars>>

\* the other modes: the configured upstream
RouteStatic(t) ==
    /\ rpc[t] = "idle"
    /\ current_provider # "hybrid"
    /\ route' = [route EXCEPT ![t] = current_provider]
    /\ rpc' = [rpc EXCEPT ![t] = IF current_provider = "native" THEN "native_begin" ELSE "legacy_begin"]
    /\ UNCHANGED <<current_provider, now, native_api, quota_file, sock, conn, answer, did_reset>>
    /\ UNCHANGED <<streamVars, keyVars, nonStreamVars, convertVars, quotaFileVars, credFileVars, aliasVars, contextVars, loopVars, lockVars>>

\* ---- handle_messages_native -------------------------------------------------
\* client._get_headers() raises (no credential, no client): the exception
\* leaves the handler before anything is counted or written
NativeHeadersRaise(t) ==
    /\ rpc[t] = "native_begin"
    /\ rpc' = [rpc EXCEPT ![t] = "crashed"]
    /\ UNCHANGED <<current_provider, now, native_api, quota_file, route, sock, conn,
                   answer, did_reset>>
    /\ UNCHANGED <<streamVars, keyVars, nonStreamVars, convertVars, quotaFileVars, credFileVars, aliasVars, contextVars, loopVars, lockVars>>

\* record_request (hybrid), then the request is posted to the native upstream
NativeRecord(t) ==
    /\ rpc[t] = "native_begin"
    /\ IF current_provider = "hybrid"
       THEN RecordRequest
       ELSE UNCHANGED <<native_api, quota_file>>
    /\ rpc' = [rpc EXCEPT ![t] = "native_call"]
    /\ UNCHANGED <<current_provider, now, route, sock, conn, answer, did_reset>>
    /\ UNCHANGED <<streamVars, keyVars, nonStreamVars, convertVars, quotaFileVars, credFileVars, aliasVars, contextVars, loopVars, lockVars>>

\* when the native answer makes the handler fail over
FailoverGuard(resp) ==
    /\ current_provider = "hybrid"
    /\ resp.status_code # 200
    /\ is_quota_exhausted_error(resp.status_code, resp.body)

\* variant: the native status line is sent before the failover
NativeQuotaErrorAfterStatus(t) ==
    /\ rpc[t] = "native_call"
    /\ \E resp \in NativeAnswers :
          /\ FailoverGuard(resp)
          /\ MarkNativeExhausted(resp.body)
    /\ route' = [route EXCEPT ![t] = "failover"]
    /\ rpc' = [rpc EXCEPT ![t] = "fallback"]
    /\ sock' = [sock EXCEPT ![t] = @ \o <<W("native", "status")>>]
    /\ UNCHANGED <<current_provider, now, conn, answer>>
    /\ UNCHANGED <<streamVars, keyVars, nonStreamVars, convertVars, quotaFileVars, credFileVars, aliasVars, contextVars, loopVars, lockVars>>

\* hybrid: the answer is a quota error: mark_native_exhausted, then
\* _fallback_to_codebuddy is entered
NativeQuotaError(t) ==
    /\ rpc[t] = "native_call"
    /\ \E resp \in NativeAnswers :
          /\ FailoverGuard(resp)
          /\ MarkNativeExhausted(resp.body)
    /\ route' = [route EXCEPT ![t] = "failover"]
    /\ rpc' = [rpc EXCEPT ![t] = "fallback"]
    /\ UNCHANGED <<current_provider, now, sock, conn, answer>>
    /\ UNCHANGED <<streamVars, keyVars, nonStreamVars, convertVars, quotaFileVars, credFileVars, aliasVars, contextVars, loopVars, lockVars>>

\* any other answer is passed to the caller
NativePassthrough(t) ==
    /\ rpc[t] = "native_call"
    /\ \E resp \in NativeAnswers : ~FailoverGuard(resp)
    /\ Respond(t, NativeResponse)
    /\ rpc' = [rpc EXCEPT ![t] = "done"]
    /\ UNCHANGED <<current_provider, now, native_api, quota_file, route, answer, did_reset>>
    /\ UNCHANGED <<streamVars, keyVars, nonStreamVars, convertVars, quotaFileVars, credFileVars, aliasVars, contextVars, loopVars, lockVars>>

\* timeout, connection error or another exception before the response started
NativeTransportError(t) ==
    /\ rpc[t] = "native_call"
    /\ Respond(t, ErrorResponse("native_error"))
    /\ rpc' = [rpc EXCEPT ![t] = "done"]
    /\ UNCHANGED <<current_provider, now, native_api, quota_file, route, answer, did_reset>>
    /\ UNCHANGED <<streamVars, keyVars, nonStreamVars, convertVars, quotaFileVars, credFileVars, aliasVars, contextVars, loopVars, lockVars>>

\* ---- the legacy handlers, by what reaches the caller --------------------------
\* handle_stream_passthrough (Part 1) or handle_non_stream_passthrough writes
\* its one response; or handle_non_stream_passthrough raises before it wrote
\* anything (upstream HTTP error, timeout) and the calling handler answers
\* with send_error_response
LegacyAnswer(t) ==
    \/ Respond(t, LegacyResponse)
    \/ Respond(t, ErrorResponse("legacy_error"))

\* variant: the failover counts the request again
FallbackCounted(t) ==
    /\ rpc[t] = "fallback"
    /\ LegacyAnswer(t)
    /\ RecordRequest
    /\ rpc' = [rpc EXCEPT ![t] = "done"]
    /\ UNCHANGED <<current_provider, now, route, answer, did_reset>>
    /\ UNCHANGED <<streamVars, keyVars, nonStreamVars, convertVars, quotaFileVars, credFileVars, aliasVars, contextVars, loopVars, lockVars>>

\* ---- _fallback_to_codebuddy ---------------------------------------------------
Fallback(t) ==
    /\ rpc[t] = "fallback"
    /\ LegacyAnswer(t)
    /\ rpc' = [rpc EXCEPT ![t] = "done"]
    /\ UNCHANGED <<current_provider, now, native_api, quota_file, route, answer, did_reset>>
    /\ UNCHANGED <<streamVars, keyVars, nonStreamVars, convertVars, quotaFileVars, credFileVars, aliasVars, contextVars, loopVars, lockVars>>

\* ---- handle_messages, legacy path ---------------------------------------------
\* the context check answers 400 "Input too long"
LegacyTooLong(t) ==
    /\ rpc[t] = "legacy_begin"
    /\ Respond(t, ErrorResponse("legacy_error"))
    /\ rpc' = [rpc EXCEPT ![t] = "done"]
    /\ UNCHANGED <<current_provider, now, native_api, quota_file, route, answer, did_reset>>
    /\ UNCHANGED <<streamVars, keyVars, nonStreamVars, convertVars, quotaFileVars, credFileVars, aliasVars, contextVars, loopVars, lockVars>>

\* record_request (hybrid, codebuddy active), then the legacy upstream is called
LegacyRecord(t) ==
    /\ rpc[t] = "legacy_begin"
    /\ IF current_provider = "hybrid" /\ route[t] = "codebuddy"
       THEN RecordRequest
       ELSE UNCHANGED <<native_api, quota_file>>
    /\ rpc' = [rpc EXCEPT ![t] = "legacy_call"]
    /\ UNCHANGED <<current_provider, now, route, sock, conn, answer, did_reset>>
    /\ UNCHANGED <<streamVars, keyVars, nonStreamVars, convertVars, quotaFileVars, credFileVars, aliasVars, contextVars, loopVars, lockVars>>

LegacyCall(t) ==
    /\ rpc[t] = "legacy_call"
    /\ LegacyAnswer(t)
    /\ rpc' = [rpc EXCEPT ![t] = "done"]
    /\ UNCHANGED <<current_provider, now, native_api, quota_file, route, answer, did_reset>>
    /\ UNCHANGED <<streamVars, keyVars, nonStreamVars, convertVars, quotaFileVars, credFileVars, aliasVars, contextVars, loopVars, lockVars>>

\* ---- GET /v1/quota and POST /v1/quota/reset (hybrid) ------------------------
\* handle_quota_reset: reset_native; get_status follows
QuotaReset(t) ==
    /\ rpc[t] = "idle"
    /\ current_provider = "hybrid"
    /\ native_api' = _get_default_state
    /\ quota_file' = <<native_api'>>
    /\ rpc' = [rpc EXCEPT ![t] = "status_check"]
    /\ UNCHANGED <<current_provider, now, route, sock, conn, answer, did_reset>>
    /\ UNCHANGED <<streamVars, keyVars, nonStreamVars, convertVars, quotaFileVars, credFileVars, aliasVars, contextVars, loopVars, lockVars>>

\* get_status, first critical section
StatusCheck(t) ==
    /\ rpc[t] \in {"idle", "status_check"}
    /\ current_provider = "hybrid"
    /\ CheckAutoReset(t)
    /\ rpc' = [rpc EXCEPT ![t] = "status_read"]
    /\ UNCHANGED <<current_provider, now, route, sock, conn, answer>>
    /\ UNCHANGED <<streamVars, keyVars, nonStreamVars, convertVars, quotaFileVars, credFileVars, aliasVars, contextVars, loopVars, lockVars>>

\* get_status, second critical section; the status is sent
StatusRead(t) ==
    /\ rpc[t] = "status_read"
    /\ answer' = [answer EXCEPT ![t] = Report]
    /\ Respond(t, StatusResponse)
    /\ rpc' = [rpc EXCEPT ![t] = "done"]
    /\ UNCHANGED <<current_provider, now, native_api, quota_file, route, did_reset>>
    /\ UNCHANGED <<streamVars, keyVars, nonStreamVars, convertVars, quotaFileVars, credFileVars, aliasVars, contextVars, loopVars, lockVars>>

ProxyNext ==
    \/ Tick
    \/ \E t \in Threads :
          \/ NextRequest(t)
          \/ RouteCheck(t)
          \/ RouteRead(t)
          \/ RouteStatic(t)
          \/ NativeHeadersRaise(t)
          \/ NativeRecord(t)
          \/ NativeQuotaError(t)
          \/ NativePassthrough(t)
          \/ NativeTransportError(t)
          \/ Fallback(t)
          \/ LegacyTooLong(t)
          \/ LegacyRecord(t)
          \/ LegacyCall(t)
          \/ QuotaReset(t)
          \/ StatusCheck(t)
          \/ StatusRead(t)

(***************************************************************************)
(* Part 3, definitions and actions.                                        *)
(***************************************************************************)
\* threads that call KeyManager.refresh
Callers == {"c1", "c2"}

\* expiresAt values of keys that expire, and the instants of the clock
ExpiryValues == {1, 2, 3}

Times == {0, 1, 2}

\* KeyManager.buffer_ms, in units of the clock
buffer_ms == 1

Key(access, refresh, expires) ==
    [accessToken |-> access, refreshToken |-> refresh, expiresAt |-> expires]

\* the keys of the environment and of ~/.git-credentials: they never expire
StaticKeys == {Key("env", "", 0), Key("git", "", 0)}

\* keys the refresh endpoint returns
RefreshedKeys == {Key("refreshed", "rt", e) : e \in ExpiryValues}

\* keys another process writes to config.json
FileKeys == {Key("file", "rt", e) : e \in ExpiryValues}

\* a config.json that is no JSON, or lacks a field
Garbage == Key("", "", 0)

FileContents == {<<k>> : k \in FileKeys \cup {Garbage}}

\* candidates handed to set_if_newer
Candidates == StaticKeys \cup FileKeys \cup RefreshedKeys

\* load_from_file raises for a missing file and for a falsy required field
Loadable(file) ==
    /\ file # <<>>
    /\ file[1].accessToken # ""
    /\ file[1].refreshToken # ""
    /\ file[1].expiresAt # 0

\* variant: a candidate with an equal expiresAt is accepted as well
set_if_newer_or_equal(old, key) ==
    IF old = None THEN [key |-> Some(key), ret |-> TRUE]
    ELSE IF old[1].expiresAt = 0 THEN [key |-> old, ret |-> FALSE]
    ELSE IF key.expiresAt = 0 \/ key.expiresAt >= old[1].expiresAt
         THEN [key |-> Some(key), ret |-> TRUE]
    ELSE [key |-> old, ret |-> FALSE]

\* set_if_newer: the stored key after the call and the value returned
set_if_newer(old, key) ==
    IF old = None THEN [key |-> Some(key), ret |-> TRUE]
    ELSE IF old[1].expiresAt = 0 THEN [key |-> old, ret |-> FALSE]
    ELSE IF key.expiresAt = 0 \/ key.expiresAt > old[1].expiresAt
         THEN [key |-> Some(key), ret |-> TRUE]
    ELSE [key |-> old, ret |-> FALSE]

\* needs_refresh() of the key in memory
needs_refresh(key, t) ==
    IF key = None THEN TRUE
    ELSE IF key[1].expiresAt = 0 THEN FALSE
    ELSE key[1].expiresAt <= t + buffer_ms

\* ---- initial states --------------------------------------------------------------
\* a KeyManager has been constructed: no key, no refresh in progress
KeyManagerInit ==
    /\ _key = None
    /\ _refreshing = FALSE
    /\ now_ms = 0
    /\ config_file = <<>>
    /\ watcher_mtime = "none"
    /\ wpc = "sleep"
    /\ wkey = None
    /\ kpc = [c \in Callers |-> "idle"]
    /\ new_key = [c \in Callers |-> None]
    /\ outcome = [c \in Callers |-> "none"]
    /\ issued = [c \in Callers |-> FALSE]
    /\ sin_calls = 0
    /\ sin_arg = None
    /\ sin_ret = FALSE

\* initialize_key_manager found the key of config.json, offered it to
\* set_if_newer and started refresh_loop and file_watcher_loop
KeyInit ==
    /\ config_file \in {<<k>> : k \in FileKeys}
    /\ _key = set_if_newer(None, config_file[1]).key
    /\ _refreshing = FALSE
    /\ now_ms = 0
    /\ watcher_mtime = "none"
    /\ wpc = "sleep"
    /\ wkey = None
    /\ kpc = [c \in Callers |-> "idle"]
    /\ new_key = [c \in Callers |-> None]
    /\ outcome = [c \in Callers |-> "none"]
    /\ issued = [c \in Callers |-> FALSE]
    /\ sin_calls = 0
    /\ sin_arg = None
    /\ sin_ret = FALSE

KeyTick ==
    /\ now_ms + 1 \in Times
    /\ now_ms' = now_ms + 1
    /\ UNCHANGED <<_key, _refreshing, config_file, watcher_mtime, wpc, wkey, kpc,
                   new_key, outcome, issued, sin_calls, sin_arg, sin_ret>>
    /\ UNCHANGED <<streamVars, proxyVars, nonStreamVars, convertVars, quotaFileVars, credFileVars, aliasVars, contextVars, loopVars, lockVars>>

\* a write of config.json changes its mtime
Touch == watcher_mtime' = IF watcher_mtime = "none" THEN "none" ELSE "differs"

\* ---- a user of the KeyManager calls set_if_newer --------------------------------
SetIfNewerCall ==
    /\ sin_calls < MaxCalls
    /\ \E key \in Candidates :
          /\ _key' = set_if_newer(_key, key).key
          /\ sin_ret' = set_if_newer(_key, key).ret
          /\ sin_arg' = Some(key)
    /\ sin_calls' = sin_calls + 1
    /\ UNCHANGED <<_refreshing, now_ms, config_file, watcher_mtime, wpc, wkey, kpc,
                   new_key, outcome, issued>>
    /\ UNCHANGED <<streamVars, proxyVars, nonStreamVars, convertVars, quotaFileVars, credFileVars, aliasVars, contextVars, loopVars, lockVars>>

\* ---- another process rewrites config.json -------------------------------------
ExternalWrite ==
    /\ \E content \in FileContents : config_file' = content
    /\ Touch
    /\ UNCHANGED <<_key, _refreshing, now_ms, wpc, wkey, kpc, new_key, outcome, issued,
                   sin_calls, sin_arg, sin_ret>>
    /\ UNCHANGED <<streamVars, proxyVars, nonStreamVars, convertVars, quotaFileVars, credFileVars, aliasVars, contextVars, loopVars, lockVars>>

\* ---- file_watcher_loop ----------------------------------------------------------
\* the poll: nothing to do (no file, or the mtime it knows), the first
\* sight (the mtime is kept, nothing is loaded) or a changed mtime
WatcherPoll ==
    /\ wpc = "sleep"
    /\ IF config_file = <<>> \/ watcher_mtime = "same"
       THEN UNCHANGED <<watcher_mtime, wpc>>
       ELSE /\ watcher_mtime' = "same"
            /\ wpc' = IF watcher_mtime = "none" THEN "sleep" ELSE "load"
    /\ UNCHANGED <<_key, _refreshing, now_ms, config_file, wkey, kpc, new_key, outcome,
                   issued, sin_calls, sin_arg, sin_ret>>
    /\ UNCHANGED <<streamVars, proxyVars, nonStreamVars, convertVars, quotaFileVars, credFileVars, aliasVars, contextVars, loopVars, lockVars>>

\* variant: a file that does not load empties the memory
WatcherLoadOrClear ==
    /\ wpc = "load"
    /\ IF Loadable(config_file)
       THEN wkey' = config_file /\ wpc' = "apply" /\ UNCHANGED _key
       ELSE wkey' = None /\ wpc' = "sleep" /\ _key' = None
    /\ UNCHANGED <<_refreshing, now_ms, config_file, watcher_mtime, kpc, new_key,
                   outcome, issued, sin_calls, sin_arg, sin_ret>>
    /\ UNCHANGED <<streamVars, proxyVars, nonStreamVars, convertVars, quotaFileVars, credFileVars, aliasVars, contextVars, loopVars, lockVars>>

\* load_from_file; what it raises is logged and the memory key stays
WatcherLoad ==
    /\ wpc = "load"
    /\ IF Loadable(config_file)
       THEN wkey' = config_file /\ wpc' = "apply"
       ELSE wkey' = None /\ wpc' = "sleep"
    /\ UNCHANGED <<_key, _refreshing, now_ms, config_file, watcher_mtime, kpc, new_key,
                   outcome, issued, sin_calls, sin_arg, sin_ret>>
    /\ UNCHANGED <<streamVars, proxyVars, nonStreamVars, convertVars, quotaFileVars, credFileVars, aliasVars, contextVars, loopVars, lockVars>>

\* set_if_newer of the loaded key
WatcherApply ==
    /\ wpc = "apply"
    /\ _key' = set_if_newer(_key, wkey[1]).key
    /\ wkey' = None
    /\ wpc' = "sleep"
    /\ UNCHANGED <<_refreshing, now_ms, config_file, watcher_mtime, kpc, new_key, outcome,
                   issued, sin_calls, sin_arg, sin_ret>>
    /\ UNCHANGED <<streamVars, proxyVars, nonStreamVars, convertVars, quotaFileVars, credFileVars, aliasVars, contextVars, loopVars, lockVars>>

\* ---- KeyManager.refresh, called by thread c -------------------------------------
Returned(c, how) ==
    /\ kpc' = [kpc EXCEPT ![c] = "returned"]
    /\ outcome' = [outcome EXCEPT ![c] = how]

\* variant: the flag is not looked at
RefreshEnterUnguarded(c) ==
    /\ kpc[c] = "idle"
    /\ IF ~needs_refresh(_key, now_ms)
       THEN Returned(c, "not_needed") /\ UNCHANGED _refreshing
       ELSE /\ _refreshing' = TRUE
            /\ kpc' = [kpc EXCEPT ![c] = "get"]
            /\ UNCHANGED outcome
    /\ UNCHANGED <<_key, now_ms, config_file, watcher_mtime, wpc, wkey, new_key, issued,
                   sin_calls, sin_arg, sin_ret>>
    /\ UNCHANGED <<streamVars, proxyVars, nonStreamVars, convertVars, quotaFileVars, credFileVars, aliasVars, contextVars, loopVars, lockVars>>

\* the locked entry: a refresh in flight or a key that needs none ends the
\* call with False; else the flag is set
RefreshEnter(c) ==
    /\ kpc[c] = "idle"
    /\ IF _refreshing
       THEN Returned(c, "in_flight") /\ UNCHANGED _refreshing
       ELSE IF ~needs_refresh(_key, now_ms)
       THEN Returned(c, "not_needed") /\ UNCHANGED _refreshing
       ELSE /\ _refreshing' = TRUE
            /\ kpc' = [kpc EXCEPT ![c] = "get"]
            /\ UNCHANGED outcome
    /\ UNCHANGED <<_key, now_ms, config_file, watcher_mtime, wpc, wkey, new_key, issued,
                   sin_calls, sin_arg, sin_ret>>
    /\ UNCHANGED <<streamVars, proxyVars, nonStreamVars, convertVars, quotaFileVars, credFileVars, aliasVars, contextVars, loopVars, lockVars>>

\* variant: without a key the call returns before the try block, past the
\* finally clause
RefreshGetReturnsEarly(c) ==
    /\ kpc[c] = "get"
    /\ IF _key = None
       THEN /\ kpc' = [kpc EXCEPT ![c] = "returned"]
            /\ outcome' = [outcome EXCEPT ![c] = "no_key"]
            /\ UNCHANGED issued
       ELSE IF _key[1].refreshToken = ""
       THEN /\ kpc' = [kpc EXCEPT ![c] = "finally"]
            /\ outcome' = [outcome EXCEPT ![c] = "failed"]
            /\ UNCHANGED issued
       ELSE /\ kpc' = [kpc EXCEPT ![c] = "http"]
            /\ issued' = [issued EXCEPT ![c] = TRUE]
            /\ UNCHANGED outcome
    /\ UNCHANGED <<_key, _refreshing, now_ms, config_file, watcher_mtime, wpc, wkey,
                   new_key, sin_calls, sin_arg, sin_ret>>
    /\ UNCHANGED <<streamVars, proxyVars, nonStreamVars, convertVars, quotaFileVars, credFileVars, aliasVars, contextVars, loopVars, lockVars>>

\* current_key = self.get(); without a key the call ends, and a key without
\* refreshToken makes refresh_key_via_http raise before it posts; else the
\* HTTP request is issued
RefreshGet(c) ==
    /\ kpc[c] = "get"
    /\ IF _key = None
       THEN /\ kpc' = [kpc EXCEPT ![c] = "finally"]
            /\ outcome' = [outcome EXCEPT ![c] = "no_key"]
            /\ UNCHANGED issued
       ELSE IF _key[1].refreshToken = ""
       THEN /\ kpc' = [kpc EXCEPT ![c] = "finally"]
            /\ outcome' = [outcome EXCEPT ![c] = "failed"]
            /\ UNCHANGED issued
       ELSE /\ kpc' = [kpc EXCEPT ![c] = "http"]
            /\ issued' = [issued EXCEPT ![c] = TRUE]
            /\ UNCHANGED outcome
    /\ UNCHANGED <<_key, _refreshing, now_ms, config_file, watcher_mtime, wpc, wkey,
                   new_key, sin_calls, sin_arg, sin_ret>>
    /\ UNCHANGED <<streamVars, proxyVars, nonStreamVars, convertVars, quotaFileVars, credFileVars, aliasVars, contextVars, loopVars, lockVars>>

\* the endpoint answers with a key that expires after now
RefreshHttpOk(c) ==
    /\ kpc[c] = "http"
    /\ \E e \in ExpiryValues :
          /\ e > now_ms
          /\ new_key' = [new_key EXCEPT ![c] = Some(Key("refreshed", "rt", e))]
    /\ kpc' = [kpc EXCEPT ![c] = "save"]
    /\ UNCHANGED <<_key, _refreshing, now_ms, config_file, watcher_mtime, wpc, wkey,
                   outcome, issued, sin_calls, sin_arg, sin_ret>>
    /\ UNCHANGED <<streamVars, proxyVars, nonStreamVars, convertVars, quotaFileVars, credFileVars, aliasVars, contextVars, loopVars, lockVars>>

\* RefreshError with 401 in its text: the memory key is cleared
RefreshHttp401(c) ==
    /\ kpc[c] = "http"
    /\ _key' = None
    /\ kpc' = [kpc EXCEPT ![c] = "finally"]
    /\ outcome' = [outcome EXCEPT ![c] = "unauthorized"]
    /\ UNCHANGED <<_refreshing, now_ms, config_file, watcher_mtime, wpc, wkey, new_key,
                   issued, sin_calls, sin_arg, sin_ret>>
    /\ UNCHANGED <<streamVars, proxyVars, nonStreamVars, convertVars, quotaFileVars, credFileVars, aliasVars, contextVars, loopVars, lockVars>>

\* any other failure of the request
RefreshHttpFail(c) ==
    /\ kpc[c] = "http"
    /\ kpc' = [kpc EXCEPT ![c] = "finally"]
    /\ outcome' = [outcome EXCEPT ![c] = "failed"]
    /\ UNCHANGED <<_key, _refreshing, now_ms, config_file, watcher_mtime, wpc, wkey,
                   new_key, issued, sin_calls, sin_arg, sin_ret>>
    /\ UNCHANGED <<streamVars, proxyVars, nonStreamVars, convertVars, quotaFileVars, credFileVars, aliasVars, contextVars, loopVars, lockVars>>

\* save_to_file(new_key)
RefreshSave(c) ==
    /\ kpc[c] = "save"
    /\ config_file' = new_key[c]
    /\ Touch
    /\ kpc' = [kpc EXCEPT ![c] = "assign"]
    /\ UNCHANGED <<_key, _refreshing, now_ms, wpc, wkey, new_key, outcome, issued,
                   sin_calls, sin_arg, sin_ret>>
    /\ UNCHANGED <<streamVars, proxyVars, nonStreamVars, convertVars, quotaFileVars, credFileVars, aliasVars, contextVars, loopVars, lockVars>>

\* save_to_file raises (disk, permissions)
RefreshSaveFails(c) ==
    /\ kpc[c] = "save"
    /\ kpc' = [kpc EXCEPT ![c] = "finally"]
    /\ outcome' = [outcome EXCEPT ![c] = "failed"]
    /\ UNCHANGED <<_key, _refreshing, now_ms, config_file, watcher_mtime, wpc, wkey,
                   new_key, issued, sin_calls, sin_arg, sin_ret>>
    /\ UNCHANGED <<streamVars, proxyVars, nonStreamVars, convertVars, quotaFileVars, credFileVars, aliasVars, contextVars, loopVars, lockVars>>

\* with self._lock: self._key = new_key
RefreshAssign(c) ==
    /\ kpc[c] = "assign"
    /\ _key' = new_key[c]
    /\ kpc' = [kpc EXCEPT ![c] = "finally"]
    /\ outcome' = [outcome EXCEPT ![c] = "refreshed"]
    /\ UNCHANGED <<_refreshing, now_ms, config_file, watcher_mtime, wpc, wkey, new_key,
                   issued, sin_calls, sin_arg, sin_ret>>
    /\ UNCHANGED <<streamVars, proxyVars, nonStreamVars, convertVars, quotaFileVars, credFileVars, aliasVars, contextVars, loopVars, lockVars>>

\* finally: the flag is cleared and the call returns
RefreshFinally(c) ==
    /\ kpc[c] = "finally"
    /\ _refreshing' = FALSE
    /\ kpc' = [kpc EXCEPT ![c] = "returned"]
    /\ UNCHANGED <<_key, now_ms, config_file, watcher_mtime, wpc, wkey, new_key, outcome,
                   issued, sin_calls, sin_arg, sin_ret>>
    /\ UNCHANGED <<streamVars, proxyVars, nonStreamVars, convertVars, quotaFileVars, credFileVars, aliasVars, contextVars, loopVars, lockVars>>

\* the thread calls refresh() again later
RefreshAgain(c) ==
    /\ kpc[c] = "returned"
    /\ kpc' = [kpc EXCEPT ![c] = "idle"]
    /\ new_key' = [new_key EXCEPT ![c] = None]
    /\ outcome' = [outcome EXCEPT ![c] = "none"]
    /\ issued' = [issued EXCEPT ![c] = FALSE]
    /\ UNCHANGED <<_key, _refreshing, now_ms, config_file, watcher_mtime, wpc, wkey,
                   sin_calls, sin_arg, sin_ret>>
    /\ UNCHANGED <<streamVars, proxyVars, nonStreamVars, convertVars, quotaFileVars, credFileVars, aliasVars, contextVars, loopVars, lockVars>>

KeyNext ==
    \/ KeyTick
    \/ ExternalWrite
    \/ WatcherPoll
    \/ WatcherLoad
    \/ WatcherApply
    \/ \E c \in Callers :
          \/ RefreshEnter(c)
          \/ RefreshGet(c)
          \/ RefreshHttpOk(c)
          \/ RefreshHttp401(c)
          \/ RefreshHttpFail(c)
          \/ RefreshSave(c)
          \/ RefreshSaveFails(c)
          \/ RefreshAssign(c)
          \/ RefreshFinally(c)
          \/ RefreshAgain(c)

(***************************************************************************)
(* Part 3 with Part 2: native requests of a server whose credential comes   *)
(* from the KeyManager (CodeBuddyNativeClient(key_manager=key_manager)).    *)
(***************************************************************************)
\* _get_headers -> _get_current_token: key_manager.get() returns None and
\* AuthenticationError is raised before the try block of
\* handle_messages_native; nothing on the way up to process_request_thread
\* answers the caller
NativeGetHeadersNoKey(t) ==
    /\ _key = None
    /\ NativeHeadersRaise(t)

\* _get_headers returns the accessToken of the loaded key and the request is
\* posted to the native upstream
NativeGetHeadersWithKey(t) ==
    /\ _key # None
    /\ NativeRecord(t)

AuthNext ==
    \/ WatcherPoll
    \/ WatcherLoad
    \/ WatcherApply
    \/ \E c \in Callers :
          \/ RefreshEnter(c)
          \/ RefreshGet(c)
          \/ RefreshHttpOk(c)
          \/ RefreshHttp401(c)
          \/ RefreshHttpFail(c)
          \/ RefreshSave(c)
          \/ RefreshSaveFails(c)
          \/ RefreshAssign(c)
          \/ RefreshFinally(c)
          \/ RefreshAgain(c)
    \/ \E t \in Threads :
          \/ RouteStatic(t)
          \/ NativeGetHeadersNoKey(t)
          \/ NativeGetHeadersWithKey(t)
          \/ NativePassthrough(t)
          \/ NativeTransportError(t)
          \/ NextRequest(t)

(***************************************************************************)
(* Part 4, definitions.  The non-streaming response.                       *)
(***************************************************************************)
\* ---- input alphabet ---------------------------------------------------------
\* the members an arguments object may have; "a" stands for the text "a": 1
Members == {"a", "b"}

\* an arguments fragment as a sequence of tokens
ObjectFragments == {<<>>, <<"{", "a", "}">>, <<"{", "b", "}">>, <<"{", "a">>, <<"}">>, <<" ">>}

NsToolDeltas == [index : ToolSlots, id : ToolIds, name : ToolNames, arguments : ObjectFragments]

NsFrames ==
    {[NoDelta EXCEPT !.thinking = TRUE], [NoDelta EXCEPT !.content = TRUE]}
    \cup {[NoDelta EXCEPT !.finish_reason = r] : r \in FinishReasons}
    \cup {[NoDelta EXCEPT !.tool_calls = <<tc>>] : tc \in NsToolDeltas}

\* ---- str.strip and json.loads -------------------------------------------------
strip(s) == lstrip(rstrip(s))

\* json.loads of an arguments text: it parses iff the text is one object, with
\* no member or one, and whitespace only around the tokens
json_loads(text) ==
    LET t == strip(text)
        inner == IF Len(t) >= 2 THEN strip(SubSeq(t, 2, Len(t) - 1)) ELSE <<>>
    IN IF /\ Len(t) >= 2
          /\ Head(t) = "{"
          /\ t[Len(t)] = "}"
          /\ \/ inner = <<>>
             \/ Len(inner) = 1 /\ inner[1] \in Members
       THEN [ok |-> TRUE, value |-> <<"object">> \o inner]
       ELSE [ok |-> FALSE, value |-> <<>>]

\* the input of a tool_use block: the parsed arguments, the parsed repaired
\* arguments, or the _raw_arguments / _parse_error placeholder
ParseArguments(arguments) ==
    IF arguments = <<>> THEN <<"object">>
    ELSE IF json_loads(arguments).ok THEN json_loads(arguments).value
    ELSE LET stripped == strip(arguments)
             fixed_args == IF stripped # <<>> /\ ~endswith(stripped, "}")
                           THEN stripped \o <<"}">> ELSE stripped
         IN IF fixed_args = <<>> THEN <<"object">>
            ELSE IF json_loads(fixed_args).ok THEN json_loads(fixed_args).value
            ELSE <<"_raw_arguments">> \o arguments

\* ---- collecting one tool_calls entry ----------------------------------------
NsNewSlot == [id |-> <<>>, name |-> "", arguments |-> <<>>]

NsCollect(tcs, tc) ==
    LET idx == tc.index
        tcs0 == IF idx \in DOMAIN tcs THEN tcs ELSE tcs @@ (idx :> NsNewSlot)
        s1 == IF tc.id # <<>> THEN [tcs0[idx] EXCEPT !.id = normalize_tool_call_id(tc.id)]
              ELSE tcs0[idx]
        s2 == IF tc.name # "" THEN [s1 EXCEPT !.name = tc.name] ELSE s1
        s3 == IF tc.arguments # <<>> THEN [s2 EXCEPT !.arguments = @ \o tc.arguments] ELSE s2
    IN [tcs0 EXCEPT ![idx] = s3]

RECURSIVE NsCollectAll(_, _)
NsCollectAll(tcs, entries) ==
    IF entries = <<>> THEN tcs ELSE NsCollectAll(NsCollect(tcs, Head(entries)), Tail(entries))

\* ---- building the response --------------------------------------------------
Block(type, id, name, input) == [type |-> type, id |-> id, name |-> name, input |-> input]

RECURSIVE ToolUseBlocks(_, _)
ToolUseBlocks(tcs, order) ==
    IF order = <<>> THEN <<>>
    ELSE (IF tcs[Head(order)].name # ""
          THEN <<Block("tool_use", normalize_tool_call_id(tcs[Head(order)].id),
                       tcs[Head(order)].name, ParseArguments(tcs[Head(order)].arguments))>>
          ELSE <<>>) \o ToolUseBlocks(tcs, Tail(order))

content_blocks ==
    (IF thinking_response THEN <<Block("thinking", <<>>, "", <<>>)>> ELSE <<>>)
    \o (IF full_response THEN <<Block("text", <<>>, "", <<>>)>> ELSE <<>>)
    \o ToolUseBlocks(ns_tool_calls, SortedSlots(DOMAIN ns_tool_calls))

NsStopReason ==
    IF DOMAIN ns_tool_calls # {} THEN "tool_use"
    ELSE IF ns_finish_reason = "stop" THEN "end_turn"
    ELSE IF ns_finish_reason = "length" THEN "max_tokens"
    ELSE "end_turn"

response_data ==
    [status |-> 200, type |-> "message",
     content |-> IF content_blocks # <<>> THEN content_blocks
                 ELSE <<Block("text", <<>>, "", <<>>)>>,
     stop_reason |-> NsStopReason]

\* send_error_response(error_type, message, status_code)
NsErrorResponse(error_type, status_code) ==
    [status |-> status_code, type |-> error_type, content |-> <<>>, stop_reason |-> ""]

\* the text of the exception the handler raises on an upstream HTTPError
NsErrorStr(status_code, error_body) ==
    IF is_quota_exhausted_error(status_code, error_body)
    THEN <<QuotaExceptionPrefix, error_body>>
    ELSE <<"CodeBuddy API error", error_body>>

\* handle_messages: the except clause around the two passthrough handlers
HandleMessagesExcept(error_str) ==
    IF \E i \in DOMAIN error_str : is_quota_exhausted_error(0, error_str[i])
    THEN NsErrorResponse("rate_limit_error", 429)
    ELSE NsErrorResponse("api_error", 500)

\* ---- actions ------------------------------------------------------------------
NonStreamInit ==
    /\ ns_pc = "idle"
    /\ ns_frames_read = 0
    /\ ns_tool_calls = <<>>
    /\ thinking_response = FALSE
    /\ full_response = FALSE
    /\ ns_finish_reason = "stop"
    /\ ns_sent = <<>>

\* urlopen succeeds
NsUpstreamOpen ==
    /\ ns_pc = "idle"
    /\ ns_pc' = "reading"
    /\ UNCHANGED <<ns_frames_read, ns_tool_calls, thinking_response, full_response,
                   ns_finish_reason, ns_sent>>
    /\ UNCHANGED <<streamVars, proxyVars, keyVars, convertVars, quotaFileVars, credFileVars, aliasVars, contextVars, loopVars, lockVars>>

\* urlopen raises HTTPError: the handler raises Exception and handle_messages
\* answers 429 rate_limit_error or 500 api_error
NsUpstreamHTTPError ==
    /\ ns_pc = "idle"
    /\ \E status_code \in {429, 500}, error_body \in Bodies :
          ns_sent' = <<HandleMessagesExcept(NsErrorStr(status_code, error_body))>>
    /\ ns_pc' = "failed"
    /\ UNCHANGED <<ns_frames_read, ns_tool_calls, thinking_response, full_response,
                   ns_finish_reason>>
    /\ UNCHANGED <<streamVars, proxyVars, keyVars, convertVars, quotaFileVars, credFileVars, aliasVars, contextVars, loopVars, lockVars>>

\* urlopen or a read raises another exception (timeout, URLError), or a frame
\* of valid JSON has an unexpected shape: handle_messages answers 500 api_error
NsUpstreamException ==
    /\ ns_pc \in {"idle", "reading"}
    /\ ns_sent' = <<HandleMessagesExcept(<<"internal error">>)>>
    /\ ns_pc' = "failed"
    /\ UNCHANGED <<ns_frames_read, ns_tool_calls, thinking_response, full_response,
                   ns_finish_reason>>
    /\ UNCHANGED <<streamVars, proxyVars, keyVars, convertVars, quotaFileVars, credFileVars, aliasVars, contextVars, loopVars, lockVars>>

\* one well-formed data frame
NsReadFrame ==
    /\ ns_pc = "reading"
    /\ ns_frames_read < MaxFrames
    /\ \E f \in NsFrames :
          /\ thinking_response' = (thinking_response \/ f.thinking)
          /\ full_response' = (full_response \/ f.content)
          /\ ns_tool_calls' = NsCollectAll(ns_tool_calls, f.tool_calls)
          /\ ns_finish_reason' = IF f.finish_reason # "" THEN f.finish_reason
                                 ELSE ns_finish_reason
    /\ ns_frames_read' = ns_frames_read + 1
    /\ UNCHANGED <<ns_pc, ns_sent>>
    /\ UNCHANGED <<streamVars, proxyVars, keyVars, convertVars, quotaFileVars, credFileVars, aliasVars, contextVars, loopVars, lockVars>>

\* a data frame that is not JSON: json.JSONDecodeError, continue
NsReadBadJson ==
    /\ ns_pc = "reading"
    /\ ns_frames_read < MaxFrames
    /\ ns_frames_read' = ns_frames_read + 1
    /\ UNCHANGED <<ns_pc, ns_tool_calls, thinking_response, full_response,
                   ns_finish_reason, ns_sent>>
    /\ UNCHANGED <<streamVars, proxyVars, keyVars, convertVars, quotaFileVars, credFileVars, aliasVars, contextVars, loopVars, lockVars>>

\* data: [DONE] or the end of the upstream response: the message is built and
\* sent
NsRespond ==
    /\ ns_pc = "reading"
    /\ ns_sent' = <<response_data>>
    /\ ns_pc' = "done"
    /\ UNCHANGED <<ns_frames_read, ns_tool_calls, thinking_response, full_response,
                   ns_finish_reason>>
    /\ UNCHANGED <<streamVars, proxyVars, keyVars, convertVars, quotaFileVars, credFileVars, aliasVars, contextVars, loopVars, lockVars>>

NonStreamNext ==
    \/ NsUpstreamOpen
    \/ NsUpstreamHTTPError
    \/ NsUpstreamException
    \/ NsReadFrame
    \/ NsReadBadJson
    \/ NsRespond

(***************************************************************************)
(* Part 5, definitions.  convert_anthropic_messages.                       *)
(***************************************************************************)
\* block types of a user message's content list: "document" has a base64
\* source, "document_url" another source, "other" is any other type
BlockTypes == {"text", "image", "document", "document_url", "tool_result", "other"}

\* the content lists that are converted; the payload of a block (its text,
\* image data or tool result) is its position in the list, so that every
\* block can be told from the others in the output
Contents ==
    UNION {{[i \in 1..n |-> [type |-> ty[i], payload |-> i]] : ty \in [1..n -> BlockTypes]}
           : n \in 0..MaxBlocks}

Msg(role, plain, content) == [role |-> role, plain |-> plain, content |-> content]

Part(type, payload) == [type |-> type, payload |-> payload]

\* flush_user_content: nothing, the text itself, or the list of parts
flush_user_content(pending_user_content) ==
    IF pending_user_content = <<>> THEN <<>>
    ELSE IF Len(pending_user_content) = 1 /\ pending_user_content[1].type = "text"
    THEN <<Msg("user", TRUE, pending_user_content)>>
    ELSE <<Msg("user", FALSE, pending_user_content)>>

\* variant: the pending user content is sent after the tool message
RECURSIVE ConvertBlocksToolFirst(_, _, _)
ConvertBlocksToolFirst(content, pending_user_content, out) ==
    IF content = <<>> THEN out \o flush_user_content(pending_user_content)
    ELSE LET block == Head(content)
         IN IF block.type = "text"
            THEN ConvertBlocksToolFirst(Tail(content),
                    pending_user_content \o <<Part("text", block.payload)>>, out)
            ELSE IF block.type = "image"
            THEN ConvertBlocksToolFirst(Tail(content),
                    pending_user_content \o <<Part("image_url", block.payload)>>, out)
            ELSE IF block.type = "document"
            THEN ConvertBlocksToolFirst(Tail(content),
                    pending_user_content \o <<Part("text", block.payload)>>, out)
            ELSE IF block.type = "tool_result"
            THEN ConvertBlocksToolFirst(Tail(content), <<>>,
                    out \o <<Msg("tool", TRUE, <<Part("text", block.payload)>>)>>
                        \o flush_user_content(pending_user_content))
            ELSE ConvertBlocksToolFirst(Tail(content), pending_user_content, out)

\* the loop over the content blocks of a user message, and the final flush
RECURSIVE ConvertBlocks(_, _, _)
ConvertBlocks(content, pending_user_content, out) ==
    IF content = <<>> THEN out \o flush_user_content(pending_user_content)
    ELSE LET block == Head(content)
         IN IF block.type = "text"
            THEN ConvertBlocks(Tail(content),
                    pending_user_content \o <<Part("text", block.payload)>>, out)
            ELSE IF block.type = "image"
            THEN ConvertBlocks(Tail(content),
                    pending_user_content \o <<Part("image_url", block.payload)>>, out)
            ELSE IF block.type = "document"
            THEN ConvertBlocks(Tail(content),
                    pending_user_content \o <<Part("text", block.payload)>>, out)
            ELSE IF block.type = "tool_result"
            THEN ConvertBlocks(Tail(content), <<>>,
                    out \o flush_user_content(pending_user_content)
                        \o <<Msg("tool", TRUE, <<Part("text", block.payload)>>)>>)
            ELSE ConvertBlocks(Tail(content), pending_user_content, out)

\* ---- actions ------------------------------------------------------------------
\* no conversion is running
ConvertIdle ==
    /\ cv_pc = "idle"
    /\ cv_content = <<>>
    /\ converted_messages = <<>>

\* convert_anthropic_messages is called with one user message
ConvertInit ==
    /\ cv_pc = "called"
    /\ cv_content \in Contents
    /\ converted_messages = <<>>

ConvertUserMessage ==
    /\ cv_pc = "called"
    /\ converted_messages' = ConvertBlocks(cv_content, <<>>, <<>>)
    /\ cv_pc' = "done"
    /\ UNCHANGED cv_content
    /\ UNCHANGED <<streamVars, proxyVars, keyVars, nonStreamVars, quotaFileVars, credFileVars, aliasVars, contextVars, loopVars, lockVars>>

(***************************************************************************)
(* Part 6, definitions.  The quota file on disk.                           *)
(***************************************************************************)
\* the file: "absent", "empty" (zero bytes), "partial" (a strict prefix of the
\* JSON text of `st`) or "complete" (the whole JSON text of `st`)
Disk(kind, st) == [kind |-> kind, state |-> st]

NoQuotaFile == Disk("absent", _get_default_state)

\* _load_state: a missing file and a file json.load cannot parse give the
\* default state
QmLoadState(disk) ==
    IF disk.kind = "complete" THEN disk.state ELSE _get_default_state

\* ---- actions ------------------------------------------------------------------
\* __init__ of the first process: no quota file yet
QuotaFileInit ==
    /\ qm_pc = "idle"
    /\ qm_native_api = _get_default_state
    /\ qm_now = StartTime
    /\ qm_disk = NoQuotaFile

QmTick ==
    /\ qm_now < Horizon
    /\ qm_now' = qm_now + 1
    /\ UNCHANGED <<qm_pc, qm_native_api, qm_disk>>
    /\ UNCHANGED <<streamVars, proxyVars, keyVars, nonStreamVars, convertVars, credFileVars, aliasVars, contextVars, loopVars, lockVars>>

\* a mutator changes _state under the lock and enters _save_state
QmMutate(st) ==
    /\ qm_pc = "idle"
    /\ qm_native_api' = st
    /\ qm_pc' = "save_open"
    /\ UNCHANGED <<qm_now, qm_disk>>
    /\ UNCHANGED <<streamVars, proxyVars, keyVars, nonStreamVars, convertVars, credFileVars, aliasVars, contextVars, loopVars, lockVars>>

QmMarkNativeExhausted ==
    \E error_body \in Bodies : QmMutate(mark_native_exhausted(qm_native_api, qm_now, error_body))

QmRecordRequest ==
    /\ qm_native_api.request_count < MaxRequests
    /\ QmMutate(record_request(qm_native_api, qm_now))

QmResetNative == QmMutate(_get_default_state)

\* _check_auto_reset when the reset is due (otherwise it changes nothing)
QmAutoReset ==
    /\ AutoResetDue(qm_native_api, qm_now)
    /\ QmMutate(_check_auto_reset(qm_native_api, qm_now))

\* _save_state: open(self.quota_file, "w") creates or truncates the file
QmSaveOpen ==
    /\ qm_pc = "save_open"
    /\ qm_disk' = Disk("empty", _get_default_state)
    /\ qm_pc' = "save_write"
    /\ UNCHANGED <<qm_native_api, qm_now>>
    /\ UNCHANGED <<streamVars, proxyVars, keyVars, nonStreamVars, convertVars, credFileVars, aliasVars, contextVars, loopVars, lockVars>>

\* _save_state: json.dump and the close of the file write the text
QmSaveWrite ==
    /\ qm_pc = "save_write"
    /\ qm_disk' = Disk("complete", qm_native_api)
    /\ qm_pc' = "idle"
    /\ UNCHANGED <<qm_native_api, qm_now>>
    /\ UNCHANGED <<streamVars, proxyVars, keyVars, nonStreamVars, convertVars, credFileVars, aliasVars, contextVars, loopVars, lockVars>>

\* _save_state: the write fails part-way (IOError, e.g. no space left); the
\* except clause prints and the mutator returns
QmSaveWriteFails ==
    /\ qm_pc = "save_write"
    /\ qm_disk.kind = "empty"
    /\ qm_disk' = Disk("partial", qm_native_api)
    /\ qm_pc' = "idle"
    /\ UNCHANGED <<qm_native_api, qm_now>>
    /\ UNCHANGED <<streamVars, proxyVars, keyVars, nonStreamVars, convertVars, credFileVars, aliasVars, contextVars, loopVars, lockVars>>

\* the process is killed, at any point
QmCrash ==
    /\ qm_pc # "down"
    /\ qm_pc' = "down"
    /\ UNCHANGED <<qm_native_api, qm_now, qm_disk>>
    /\ UNCHANGED <<streamVars, proxyVars, keyVars, nonStreamVars, convertVars, credFileVars, aliasVars, contextVars, loopVars, lockVars>>

\* the next process: __init__ loads the file and runs _check_auto_reset
QmRestart ==
    /\ qm_pc = "down"
    /\ qm_native_api' = _check_auto_reset(QmLoadState(qm_disk), qm_now)
    /\ qm_pc' = IF AutoResetDue(QmLoadState(qm_disk), qm_now) THEN "save_open" ELSE "idle"
    /\ UNCHANGED <<qm_now, qm_disk>>
    /\ UNCHANGED <<streamVars, proxyVars, keyVars, nonStreamVars, convertVars, credFileVars, aliasVars, contextVars, loopVars, lockVars>>

QuotaFileNext ==
    \/ QmTick
    \/ QmMarkNativeExhausted
    \/ QmRecordRequest
    \/ QmResetNative
    \/ QmAutoReset
    \/ QmSaveOpen
    \/ QmSaveWrite
    \/ QmSaveWriteFails
    \/ QmCrash
    \/ QmRestart

(***************************************************************************)
(* Part 7, definitions.  The credential file on disk.                      *)
(***************************************************************************)
NoCredFile == Disk("absent", Garbage)

\* the server runs: config.json holds the key initialize_key_manager loaded
CredFileInit ==
    /\ cs_pc = [c \in Callers |-> "idle"]
    /\ cs_refreshing = FALSE
    /\ cs_key = [c \in Callers |-> Garbage]
    /\ cs_config \in {Disk("complete", k) : k \in FileKeys}
    /\ cs_tmp = NoCredFile
    /\ cs_loaded = "none"

\* the other specifications: one fixed file
CredFileIdle ==
    /\ cs_pc = [c \in Callers |-> "idle"]
    /\ cs_refreshing = FALSE
    /\ cs_key = [c \in Callers |-> Garbage]
    /\ cs_config = NoCredFile
    /\ cs_tmp = NoCredFile
    /\ cs_loaded = "none"

\* ---- actions ------------------------------------------------------------------
\* refresh() of thread c: no refresh is in progress, the flag is set and the
\* refresh endpoint returns a key
CsRefreshEnter(c) ==
    /\ cs_pc[c] = "idle"
    /\ ~cs_refreshing
    /\ cs_refreshing' = TRUE
    /\ \E k \in RefreshedKeys : cs_key' = [cs_key EXCEPT ![c] = k]
    /\ cs_pc' = [cs_pc EXCEPT ![c] = "open"]
    /\ UNCHANGED <<cs_config, cs_tmp, cs_loaded>>
    /\ UNCHANGED <<streamVars, proxyVars, keyVars, nonStreamVars, convertVars, quotaFileVars, aliasVars, contextVars, loopVars, lockVars>>

\* variant of save_to_file: config_path itself is opened for writing
CsOpenInPlace(c) ==
    /\ cs_pc[c] = "open"
    /\ cs_config' = Disk("empty", Garbage)
    /\ cs_pc' = [cs_pc EXCEPT ![c] = "write"]
    /\ UNCHANGED <<cs_refreshing, cs_key, cs_tmp, cs_loaded>>
    /\ UNCHANGED <<streamVars, proxyVars, keyVars, nonStreamVars, convertVars, quotaFileVars, aliasVars, contextVars, loopVars, lockVars>>

\* save_to_file: open(tmp_path, "w") creates or truncates the temporary file
CsOpenTmp(c) ==
    /\ cs_pc[c] = "open"
    /\ cs_tmp' = Disk("empty", Garbage)
    /\ cs_pc' = [cs_pc EXCEPT ![c] = "write"]
    /\ UNCHANGED <<cs_refreshing, cs_key, cs_config, cs_loaded>>
    /\ UNCHANGED <<streamVars, proxyVars, keyVars, nonStreamVars, convertVars, quotaFileVars, aliasVars, contextVars, loopVars, lockVars>>

\* save_to_file: json.dump and the close of the temporary file
CsWriteTmp(c) ==
    /\ cs_pc[c] = "write"
    /\ cs_tmp' = Disk("complete", cs_key[c])
    /\ cs_pc' = [cs_pc EXCEPT ![c] = "replace"]
    /\ UNCHANGED <<cs_refreshing, cs_key, cs_config, cs_loaded>>
    /\ UNCHANGED <<streamVars, proxyVars, keyVars, nonStreamVars, convertVars, quotaFileVars, aliasVars, contextVars, loopVars, lockVars>>

\* save_to_file: the write fails part-way; the exception leaves save_to_file
\* and refresh() returns False
CsWriteTmpFails(c) ==
    /\ cs_pc[c] = "write"
    /\ cs_tmp' = Disk("partial", cs_key[c])
    /\ cs_pc' = [cs_pc EXCEPT ![c] = "finally"]
    /\ UNCHANGED <<cs_refreshing, cs_key, cs_config, cs_loaded>>
    /\ UNCHANGED <<streamVars, proxyVars, keyVars, nonStreamVars, convertVars, quotaFileVars, aliasVars, contextVars, loopVars, lockVars>>

\* save_to_file: os.replace(tmp_path, config_path)
CsReplace(c) ==
    /\ cs_pc[c] = "replace"
    /\ cs_config' = cs_tmp
    /\ cs_tmp' = NoCredFile
    /\ cs_pc' = [cs_pc EXCEPT ![c] = "finally"]
    /\ UNCHANGED <<cs_refreshing, cs_key, cs_loaded>>
    /\ UNCHANGED <<streamVars, proxyVars, keyVars, nonStreamVars, convertVars, quotaFileVars, aliasVars, contextVars, loopVars, lockVars>>

\* os.chmod and the memory update change no file content; finally: the flag
\* is cleared
CsRefreshFinally(c) ==
    /\ cs_pc[c] = "finally"
    /\ cs_refreshing' = FALSE
    /\ cs_pc' = [cs_pc EXCEPT ![c] = "idle"]
    /\ UNCHANGED <<cs_key, cs_config, cs_tmp, cs_loaded>>
    /\ UNCHANGED <<streamVars, proxyVars, keyVars, nonStreamVars, convertVars, quotaFileVars, aliasVars, contextVars, loopVars, lockVars>>

\* file_watcher_loop: load_from_file, at any moment of a write
CsWatcherLoad ==
    /\ cs_loaded' = IF cs_config.kind = "absent" THEN "missing"
                    ELSE IF cs_config.kind = "complete" THEN "key"
                    ELSE "torn"
    /\ UNCHANGED <<cs_pc, cs_refreshing, cs_key, cs_config, cs_tmp>>
    /\ UNCHANGED <<streamVars, proxyVars, keyVars, nonStreamVars, convertVars, quotaFileVars, aliasVars, contextVars, loopVars, lockVars>>

\* the process is killed and started again: the files stay as they are
CsRestart ==
    /\ cs_pc' = [c \in Callers |-> "idle"]
    /\ cs_refreshing' = FALSE
    /\ cs_loaded' = "none"
    /\ UNCHANGED <<cs_key, cs_config, cs_tmp>>
    /\ UNCHANGED <<streamVars, proxyVars, keyVars, nonStreamVars, convertVars, quotaFileVars, aliasVars, contextVars, loopVars, lockVars>>

CredFileNext ==
    \/ CsWatcherLoad
    \/ CsRestart
    \/ \E c \in Callers :
          \/ CsRefreshEnter(c)
          \/ CsOpenTmp(c)
          \/ CsWriteTmp(c)
          \/ CsWriteTmpFails(c)
          \/ CsReplace(c)
          \/ CsRefreshFinally(c)

(***************************************************************************)
(* Part 8, definitions.  The stored key and the records of its callers.    *)
(***************************************************************************)
Objects == {"o1", "o2", "o3"}

\* contents of the records of an API user
UserKeys == {Key("file", "rt", 1), Key("file", "rt", 2), Key("env", "", 0)}

\* the value of self._key
Stored == IF al_key = None THEN None ELSE al_heap[al_key[1]]

\* a new KeyManager
AliasInit ==
    /\ al_heap = [o \in Objects |-> None]
    /\ al_key = None
    /\ al_held = {}
    /\ al_op = "none"

\* ---- actions ------------------------------------------------------------------
\* the API user builds a record
AlNew ==
    /\ \E o \in Objects, k \in UserKeys :
          /\ al_heap[o] = None
          /\ al_heap' = [al_heap EXCEPT ![o] = Some(k)]
          /\ al_held' = al_held \cup {o}
    /\ al_op' = "new"
    /\ UNCHANGED al_key
    /\ UNCHANGED <<streamVars, proxyVars, keyVars, nonStreamVars, convertVars, quotaFileVars, credFileVars, contextVars, loopVars, lockVars>>

\* get: dict(self._key), a new object with the content of the stored one
AlGet ==
    /\ al_key # None
    /\ \E o \in Objects :
          /\ al_heap[o] = None
          /\ al_heap' = [al_heap EXCEPT ![o] = Stored]
          /\ al_held' = al_held \cup {o}
    /\ al_op' = "get"
    /\ UNCHANGED al_key
    /\ UNCHANGED <<streamVars, proxyVars, keyVars, nonStreamVars, convertVars, quotaFileVars, credFileVars, contextVars, loopVars, lockVars>>

\* set_if_newer(key) with a record the user holds: self._key = key stores the
\* reference when the candidate is accepted
AlSetIfNewer ==
    /\ \E o \in al_held :
          al_key' = IF set_if_newer(Stored, al_heap[o][1]).ret THEN Some(o) ELSE al_key
    /\ al_op' = "set_if_newer"
    /\ UNCHANGED <<al_heap, al_held>>
    /\ UNCHANGED <<streamVars, proxyVars, keyVars, nonStreamVars, convertVars, quotaFileVars, credFileVars, contextVars, loopVars, lockVars>>

\* the user changes a record it holds
AlMutate ==
    /\ \E o \in al_held, k \in UserKeys :
          /\ al_heap[o] # Some(k)
          /\ al_heap' = [al_heap EXCEPT ![o] = Some(k)]
    /\ al_op' = "mutate"
    /\ UNCHANGED <<al_key, al_held>>
    /\ UNCHANGED <<streamVars, proxyVars, keyVars, nonStreamVars, convertVars, quotaFileVars, credFileVars, contextVars, loopVars, lockVars>>

\* the user drops a record nobody else refers to
AlDrop ==
    /\ \E o \in al_held :
          /\ al_key # Some(o)
          /\ al_heap' = [al_heap EXCEPT ![o] = None]
          /\ al_held' = al_held \ {o}
    /\ al_op' = "none"
    /\ UNCHANGED al_key
    /\ UNCHANGED <<streamVars, proxyVars, keyVars, nonStreamVars, convertVars, quotaFileVars, credFileVars, contextVars, loopVars, lockVars>>

AliasNext == AlNew \/ AlGet \/ AlSetIfNewer \/ AlMutate \/ AlDrop

(***************************************************************************)
(* Part 9, definitions.  The context check.                                *)
(***************************************************************************)
\* estimated input tokens, around the thresholds of the check
InputTokens == {0, DEFAULT_MAX_CONTEXT - DefaultMaxTokens, DEFAULT_MAX_CONTEXT - DefaultMaxTokens + 1,
                DEFAULT_MAX_CONTEXT - MinAvailableForOutput - 1, DEFAULT_MAX_CONTEXT - MinAvailableForOutput,
                DEFAULT_MAX_CONTEXT - MinAvailableForOutput + 1, DEFAULT_MAX_CONTEXT - 1,
                DEFAULT_MAX_CONTEXT, DEFAULT_MAX_CONTEXT + 1}

\* max_tokens of the request
RequestMaxTokens == {None, Some(1), Some(MinAvailableForOutput), Some(MinAvailableForOutput + 1),
                     Some(DefaultMaxTokens), Some(DEFAULT_MAX_CONTEXT), Some(DEFAULT_MAX_CONTEXT + 1)}

Min(a, b) == IF a <= b THEN a ELSE b

\* handle_messages: the check of the context length; what is sent or answered
ContextCheck(estimated_input_tokens, max_tokens) ==
    LET max_context == DEFAULT_MAX_CONTEXT
        requested_max_tokens == IF max_tokens = None THEN DefaultMaxTokens ELSE max_tokens[1]
        available_for_output == max_context - estimated_input_tokens
    IN IF estimated_input_tokens + requested_max_tokens > max_context
       THEN IF available_for_output < MinAvailableForOutput
            THEN [sent |-> FALSE, max_tokens |-> max_tokens,
                  error |-> <<400, "invalid_request_error">>]
            ELSE [sent |-> TRUE, max_tokens |-> Some(Min(requested_max_tokens, available_for_output)),
                  error |-> <<>>]
       ELSE [sent |-> TRUE, max_tokens |-> max_tokens, error |-> <<>>]

\* _fallback_to_codebuddy: max_tokens of the request is copied to the body
FallbackPayloadMaxTokens(max_tokens) == max_tokens

\* ---- actions ------------------------------------------------------------------
\* a request for the legacy upstream has been received
ContextInit ==
    /\ cx_pc = "received"
    /\ cx_path \in {"direct", "failover"}
    /\ cx_input \in InputTokens
    /\ cx_request_max \in RequestMaxTokens
    /\ cx_payload_max = None
    /\ cx_error = <<>>

\* the other specifications: one fixed request
ContextIdle ==
    /\ cx_pc = "received"
    /\ cx_path = "direct"
    /\ cx_input = 0
    /\ cx_request_max = None
    /\ cx_payload_max = None
    /\ cx_error = <<>>

\* handle_messages, legacy upstream chosen by the router: the context check,
\* then the body is sent or the request answered with 400
DirectContextCheck ==
    /\ cx_pc = "received"
    /\ cx_path = "direct"
    /\ LET r == ContextCheck(cx_input, cx_request_max)
       IN /\ cx_pc' = IF r.sent THEN "sent" ELSE "rejected"
          /\ cx_payload_max' = IF r.sent THEN r.max_tokens ELSE None
          /\ cx_error' = r.error
    /\ UNCHANGED <<cx_path, cx_input, cx_request_max>>
    /\ UNCHANGED <<streamVars, proxyVars, keyVars, nonStreamVars, convertVars, quotaFileVars, credFileVars, aliasVars, loopVars, lockVars>>

\* handle_messages_native failed over: _fallback_to_codebuddy builds the body
\* and sends it
FallbackSend ==
    /\ cx_pc = "received"
    /\ cx_path = "failover"
    /\ cx_pc' = "sent"
    /\ cx_payload_max' = FallbackPayloadMaxTokens(cx_request_max)
    /\ UNCHANGED <<cx_path, cx_input, cx_request_max, cx_error>>
    /\ UNCHANGED <<streamVars, proxyVars, keyVars, nonStreamVars, convertVars, quotaFileVars, credFileVars, aliasVars, loopVars, lockVars>>

ContextNext == DirectContextCheck \/ FallbackSend

(***************************************************************************)
(* Part 10, definitions and actions.  refresh_loop.                        *)
(***************************************************************************)
\* max_retries = 5
max_retries == 5

\* a key without refreshToken that expires: set_if_newer validates nothing,
\* so a caller can store one
UnrefreshableKeys == {Key("manual", "", 1)}

\* the text of the endpoint's reply, as words
ReplyBodies == {<<"token">>, <<"busy">>, <<"trace", "401">>}

\* the replies of the refresh endpoint; "timeout" is no reply at all
RefreshReplies ==
    [status : {"200", "401", "500"}, body : ReplyBodies]
       \cup {[status |-> "timeout", body |-> <<>>]}

\* refresh_key_via_http(key, config) against an endpoint that answers with
\* reply: whether a request was posted, the new key or the words of the
\* RefreshError raised.  Every RefreshError raised inside the try block is
\* caught by "except Exception" and wrapped.  With requests the text of an
\* HTTP error holds the body; with urllib it holds the status line.
refresh_key_via_http(key, reply, has_requests, expires_at) ==
    IF key.refreshToken = ""
    THEN [posted |-> FALSE, key |-> None, error |-> <<"Missing", "refreshToken">>]
    ELSE IF reply.status = "timeout"
    THEN [posted |-> TRUE, key |-> None,
          error |-> IF has_requests THEN <<"Unexpected", "error", "timed", "out">>
                    ELSE <<"HTTP", "request", "failed", "timed", "out">>]
    ELSE IF reply.status = "401"
    THEN [posted |-> TRUE, key |-> None,
          error |-> IF has_requests
                    THEN <<"Unexpected", "error", "401", "Unauthorized">> \o reply.body
                    ELSE <<"401", "Unauthorized", "HTTP", "Error", "401">>]
    ELSE IF reply.status # "200"
    THEN [posted |-> TRUE, key |-> None,
          error |-> IF has_requests
                    THEN <<"Unexpected", "error", "HTTP", reply.status>> \o reply.body
                    ELSE <<"HTTP", "request", "failed", "HTTP", "Error", reply.status>>]
    ELSE IF reply.body # <<"token">>
    THEN [posted |-> TRUE, key |-> None,
          error |-> <<"Unexpected", "error", "Invalid", "response">> \o reply.body]
    ELSE [posted |-> TRUE, error |-> <<>>,
          key |-> Some(Key("refreshed", key.refreshToken, expires_at))]

\* "401" in str(e)
Contains401(error) == \E i \in DOMAIN error : error[i] = "401"

\* what a call of manager.refresh(config) did: the value it returned, whether
\* it posted a request, the status the endpoint answered with and the way out
Result(success, posted, status, how) ==
    [success |-> success, posted |-> posted, status |-> status, how |-> how]

NoResult == Result(FALSE, FALSE, "none", "none")

\* refresh_loop was started for the key of config.json
RefreshLoopInit ==
    /\ rl_pc = "check"
    /\ rl_file \in {<<k>> : k \in FileKeys}
    /\ rl_key \in {rl_file} \cup {<<k>> : k \in StaticKeys \cup UnrefreshableKeys}
    /\ rl_now = 0
    /\ retry_count = 0
    /\ rl_result = NoResult

\* no refresh_loop runs
RefreshLoopIdle ==
    /\ rl_pc = "check"
    /\ rl_file = <<>>
    /\ rl_key = None
    /\ rl_now = 0
    /\ retry_count = 0
    /\ rl_result = NoResult

RlTick ==
    /\ rl_now + 1 \in Times
    /\ rl_now' = rl_now + 1
    /\ UNCHANGED <<rl_pc, rl_key, rl_file, retry_count, rl_result>>
    /\ UNCHANGED <<streamVars, proxyVars, keyVars, nonStreamVars, convertVars, quotaFileVars, credFileVars, aliasVars, contextVars, lockVars>>

\* another process wrote config.json and file_watcher_loop offered the key
\* to set_if_newer
RlWatcher ==
    /\ \E k \in FileKeys :
          /\ rl_file' = <<k>>
          /\ rl_key' = set_if_newer(rl_key, k).key
    /\ UNCHANGED <<rl_pc, rl_now, retry_count, rl_result>>
    /\ UNCHANGED <<streamVars, proxyVars, keyVars, nonStreamVars, convertVars, quotaFileVars, credFileVars, aliasVars, contextVars, lockVars>>

\* key = manager.get(); if key and manager.needs_refresh(key)
LoopCheck ==
    /\ rl_pc = "check"
    /\ rl_pc' = IF rl_key # None /\ needs_refresh(rl_key, rl_now) THEN "refresh" ELSE "sleep"
    /\ UNCHANGED <<rl_key, rl_file, rl_now, retry_count, rl_result>>
    /\ UNCHANGED <<streamVars, proxyVars, keyVars, nonStreamVars, convertVars, quotaFileVars, credFileVars, aliasVars, contextVars, lockVars>>

\* success = manager.refresh(config): the guards (busy: another thread is
\* refreshing), the request, save_to_file (save_ok: it does not raise), the
\* assignment, and the handlers of RefreshError and Exception
LoopRefresh ==
    /\ rl_pc = "refresh"
    /\ \E busy \in BOOLEAN, reply \in RefreshReplies, has_requests \in BOOLEAN,
          expires_at \in ExpiryValues, save_ok \in BOOLEAN :
          /\ expires_at > rl_now
          /\ IF busy
             THEN /\ rl_result' = Result(FALSE, FALSE, "none", "in_flight")
                  /\ UNCHANGED <<rl_key, rl_file>>
             ELSE IF ~needs_refresh(rl_key, rl_now)
             THEN /\ rl_result' = Result(FALSE, FALSE, "none", "not_needed")
                  /\ UNCHANGED <<rl_key, rl_file>>
             ELSE IF rl_key = None
             THEN /\ rl_result' = Result(FALSE, FALSE, "none", "no_key")
                  /\ UNCHANGED <<rl_key, rl_file>>
             ELSE LET r == refresh_key_via_http(rl_key[1], reply, has_requests, expires_at)
                      status == IF r.posted THEN reply.status ELSE "none"
                  IN IF r.key # None /\ save_ok
                     THEN /\ rl_file' = r.key
                          /\ rl_key' = r.key
                          /\ rl_result' = Result(TRUE, r.posted, status, "refreshed")
                     ELSE IF r.key # None
                     THEN /\ rl_result' = Result(FALSE, r.posted, status, "save_failed")
                          /\ UNCHANGED <<rl_key, rl_file>>
                     ELSE /\ rl_key' = IF Contains401(r.error) THEN None ELSE rl_key
                          /\ rl_result' = Result(FALSE, r.posted, status, "refresh_error")
                          /\ UNCHANGED rl_file
    /\ rl_pc' = "count"
    /\ UNCHANGED <<rl_now, retry_count>>
    /\ UNCHANGED <<streamVars, proxyVars, keyVars, nonStreamVars, convertVars, quotaFileVars, credFileVars, aliasVars, contextVars, lockVars>>

\* if success: retry_count = 0; else: retry_count += 1 and, when it exceeds
\* max_retries, manager._key = None and retry_count = 0
LoopCount ==
    /\ rl_pc = "count"
    /\ IF rl_result.success
       THEN retry_count' = 0 /\ UNCHANGED rl_key
       ELSE IF retry_count + 1 > max_retries
       THEN retry_count' = 0 /\ rl_key' = None
       ELSE retry_count' = retry_count + 1 /\ UNCHANGED rl_key
    /\ rl_pc' = "sleep"
    /\ UNCHANGED <<rl_file, rl_now, rl_result>>
    /\ UNCHANGED <<streamVars, proxyVars, keyVars, nonStreamVars, convertVars, quotaFileVars, credFileVars, aliasVars, contextVars, lockVars>>

\* time.sleep, then the next round
LoopSleep ==
    /\ rl_pc = "sleep"
    /\ rl_pc' = "check"
    /\ UNCHANGED <<rl_key, rl_file, rl_now, retry_count, rl_result>>
    /\ UNCHANGED <<streamVars, proxyVars, keyVars, nonStreamVars, convertVars, quotaFileVars, credFileVars, aliasVars, contextVars, lockVars>>

RefreshLoopNext ==
    \/ RlTick
    \/ RlWatcher
    \/ LoopCheck
    \/ LoopRefresh
    \/ LoopCount
    \/ LoopSleep

(***************************************************************************)
(* Part 11, actions.  The methods of the QuotaManager under self._lock.    *)
(***************************************************************************)
\* the methods: mark_native_exhausted, record_request, reset_native, and
\* _check_auto_reset, the first half of is_native_available and get_status
LedgerMethods == {"mark", "record", "reset", "check"}

\* a QuotaManager was constructed without a quota file
LedgerLockInit ==
    /\ ql_lock = "free"
    /\ ql_state = _get_default_state
    /\ ql_disk = NoQuotaFile
    /\ ql_now = StartTime
    /\ ql_pc = [t \in Threads |-> "idle"]
    /\ ql_op = [t \in Threads |-> "none"]

QlTick ==
    /\ ql_now < Horizon
    /\ ql_now' = ql_now + 1
    /\ UNCHANGED <<ql_lock, ql_state, ql_disk, ql_pc, ql_op>>
    /\ UNCHANGED <<streamVars, proxyVars, keyVars, nonStreamVars, convertVars, quotaFileVars, credFileVars, aliasVars, contextVars, loopVars>>

\* with self._lock: a thread enters a method when the lock is free
QlAcquire(t) ==
    /\ ql_pc[t] = "idle"
    /\ ql_lock = "free"
    /\ ql_lock' = t
    /\ \E m \in LedgerMethods : ql_op' = [ql_op EXCEPT ![t] = m]
    /\ ql_pc' = [ql_pc EXCEPT ![t] = "locked"]
    /\ UNCHANGED <<ql_state, ql_disk, ql_now>>
    /\ UNCHANGED <<streamVars, proxyVars, keyVars, nonStreamVars, convertVars, quotaFileVars, credFileVars, aliasVars, contextVars, loopVars>>

\* what the method assigns to _state
LedgerAssign(m, st, t) ==
    IF m = "mark" THEN mark_native_exhausted(st, t, "Rate Limit reached")
    ELSE IF m = "record" THEN record_request(st, t)
    ELSE IF m = "reset" THEN _get_default_state
    ELSE _check_auto_reset(st, t)

\* variant: the lock is released between the assignment and _save_state
QlMutateThenUnlock(t) ==
    /\ ql_pc[t] = "locked"
    /\ (ql_op[t] = "record") => ql_state.request_count < MaxRequests
    /\ ql_state' = LedgerAssign(ql_op[t], ql_state, ql_now)
    /\ ql_lock' = IF ql_op[t] = "check" THEN ql_lock ELSE "free"
    /\ ql_pc' = [ql_pc EXCEPT ![t] =
                    IF ql_op[t] = "check" /\ ~AutoResetDue(ql_state, ql_now)
                    THEN "release" ELSE "save_open"]
    /\ UNCHANGED <<ql_disk, ql_now, ql_op>>
    /\ UNCHANGED <<streamVars, proxyVars, keyVars, nonStreamVars, convertVars, quotaFileVars, credFileVars, aliasVars, contextVars, loopVars>>

\* the assignments to _state; _check_auto_reset returns without a save when
\* no reset is due
QlMutate(t) ==
    /\ ql_pc[t] = "locked"
    /\ (ql_op[t] = "record") => ql_state.request_count < MaxRequests
    /\ ql_state' = LedgerAssign(ql_op[t], ql_state, ql_now)
    /\ ql_pc' = [ql_pc EXCEPT ![t] =
                    IF ql_op[t] = "check" /\ ~AutoResetDue(ql_state, ql_now)
                    THEN "release" ELSE "save_open"]
    /\ UNCHANGED <<ql_lock, ql_disk, ql_now, ql_op>>
    /\ UNCHANGED <<streamVars, proxyVars, keyVars, nonStreamVars, convertVars, quotaFileVars, credFileVars, aliasVars, contextVars, loopVars>>

\* _save_state: open(self.quota_file, "w")
QlSaveOpen(t) ==
    /\ ql_pc[t] = "save_open"
    /\ ql_disk' = Disk("empty", _get_default_state)
    /\ ql_pc' = [ql_pc EXCEPT ![t] = "save_write"]
    /\ UNCHANGED <<ql_lock, ql_state, ql_now, ql_op>>
    /\ UNCHANGED <<streamVars, proxyVars, keyVars, nonStreamVars, convertVars, quotaFileVars, credFileVars, aliasVars, contextVars, loopVars>>

\* _save_state: json.dump(self._state, f) and the close of the file; a write
\* that fails with IOError, and a process that is killed, are in Part 6
QlSaveWrite(t) ==
    /\ ql_pc[t] = "save_write"
    /\ ql_disk' = Disk("complete", ql_state)
    /\ ql_pc' = [ql_pc EXCEPT ![t] = "release"]
    /\ UNCHANGED <<ql_lock, ql_state, ql_now, ql_op>>
    /\ UNCHANGED <<streamVars, proxyVars, keyVars, nonStreamVars, convertVars, quotaFileVars, credFileVars, aliasVars, contextVars, loopVars>>

\* the end of the with block; is_native_available and get_status go on to
\* their second with block
QlRelease(t) ==
    /\ ql_pc[t] = "release"
    /\ ql_lock' = IF ql_lock = t THEN "free" ELSE ql_lock
    /\ ql_pc' = [ql_pc EXCEPT ![t] = IF ql_op[t] = "check" THEN "read" ELSE "idle"]
    /\ UNCHANGED <<ql_state, ql_disk, ql_now, ql_op>>
    /\ UNCHANGED <<streamVars, proxyVars, keyVars, nonStreamVars, convertVars, quotaFileVars, credFileVars, aliasVars, contextVars, loopVars>>

\* the second with block of is_native_available and get_status: the state is
\* read under the lock; or _check_auto_reset was called alone
QlRead(t) ==
    /\ ql_pc[t] = "read"
    /\ ql_lock = "free"
    /\ ql_pc' = [ql_pc EXCEPT ![t] = "idle"]
    /\ ql_op' = [ql_op EXCEPT ![t] = "none"]
    /\ UNCHANGED <<ql_lock, ql_state, ql_disk, ql_now>>
    /\ UNCHANGED <<streamVars, proxyVars, keyVars, nonStreamVars, convertVars, quotaFileVars, credFileVars, aliasVars, contextVars, loopVars>>

LedgerLockNext ==
    \/ QlTick
    \/ \E t \in Threads :
          \/ QlAcquire(t)
          \/ QlMutate(t)
          \/ QlSaveOpen(t)
          \/ QlSaveWrite(t)
          \/ QlRelease(t)
          \/ QlRead(t)

(***************************************************************************)
(* Specifications.                                                         *)
(***************************************************************************)
vars == <<streamVars, proxyVars, keyVars, nonStreamVars, convertVars, quotaFileVars, credFileVars, aliasVars, contextVars, loopVars, lockVars>>

\* the streaming transcoder of one request; the rest of the server is idle
InitStream == StreamInit /\ ProxyStart("codebuddy", <<>>) /\ KeyManagerInit /\ NonStreamInit /\ ConvertIdle /\ QuotaFileInit /\ CredFileIdle /\ AliasInit /\ ContextIdle /\ RefreshLoopIdle /\ LedgerLockInit

SpecStream == InitStream /\ [][StreamNext]_vars

\* the router and the quota ledger
InitProxy == StreamInit /\ ProxyInit /\ KeyManagerInit /\ NonStreamInit /\ ConvertIdle /\ QuotaFileInit /\ CredFileIdle /\ AliasInit /\ ContextIdle /\ RefreshLoopIdle /\ LedgerLockInit

SpecProxy == InitProxy /\ [][ProxyNext]_vars

\* the credential store with its refresh callers and its file watcher
InitKey == StreamInit /\ ProxyStart("codebuddy", <<>>) /\ KeyInit /\ NonStreamInit /\ ConvertIdle /\ QuotaFileInit /\ CredFileIdle /\ AliasInit /\ ContextIdle /\ RefreshLoopIdle /\ LedgerLockInit

SpecKey == InitKey /\ [][KeyNext]_vars

\* sequences of set_if_newer calls on a new KeyManager
InitSetIfNewer == StreamInit /\ ProxyStart("codebuddy", <<>>) /\ KeyManagerInit /\ NonStreamInit /\ ConvertIdle /\ QuotaFileInit /\ CredFileIdle /\ AliasInit /\ ContextIdle /\ RefreshLoopIdle /\ LedgerLockInit

\* a thread inside refresh() keeps running: the HTTP request has a timeout and
\* the other steps do not wait
RefreshStep(c) ==
    \/ RefreshGet(c)
    \/ RefreshHttpOk(c)
    \/ RefreshHttp401(c)
    \/ RefreshHttpFail(c)
    \/ RefreshSave(c)
    \/ RefreshSaveFails(c)
    \/ RefreshAssign(c)
    \/ RefreshFinally(c)

\* the callers of refresh() alone, while the clock advances
RefreshNext ==
    \/ KeyTick
    \/ \E c \in Callers :
          \/ RefreshEnter(c)
          \/ RefreshStep(c)
          \/ RefreshAgain(c)

SpecRefresh == InitKey /\ [][RefreshNext]_vars /\ \A c \in Callers : WF_vars(RefreshStep(c))

SpecSetIfNewer == InitSetIfNewer /\ [][SetIfNewerCall]_vars

\* the non-streaming response of one request
InitNonStream ==
    StreamInit /\ ProxyStart("codebuddy", <<>>) /\ KeyManagerInit /\ NonStreamInit /\ ConvertIdle /\ QuotaFileInit /\ CredFileIdle /\ AliasInit /\ ContextIdle /\ RefreshLoopIdle /\ LedgerLockInit

SpecNonStream == InitNonStream /\ [][NonStreamNext]_vars

\* convert_anthropic_messages on the content lists of one user message
InitConvert ==
    StreamInit /\ ProxyStart("codebuddy", <<>>) /\ KeyManagerInit /\ NonStreamInit /\ ConvertInit /\ QuotaFileInit /\ CredFileIdle /\ AliasInit /\ ContextIdle /\ RefreshLoopIdle /\ LedgerLockInit

SpecConvert == InitConvert /\ [][ConvertUserMessage]_vars

\* native mode with the KeyManager: refresh, file watcher and native requests
InitAuth ==
    StreamInit /\ ProxyStart("native", <<>>) /\ KeyInit /\ NonStreamInit /\ ConvertIdle /\ QuotaFileInit /\ CredFileIdle /\ AliasInit /\ ContextIdle /\ RefreshLoopIdle /\ LedgerLockInit

SpecAuth == InitAuth /\ [][AuthNext]_vars

\* the quota file under the mutators of one QuotaManager process, its kills
\* and its restarts
InitQuotaFile ==
    StreamInit /\ ProxyStart("codebuddy", <<>>) /\ KeyManagerInit /\ NonStreamInit /\ ConvertIdle /\ QuotaFileInit /\ CredFileIdle /\ AliasInit /\ ContextIdle /\ RefreshLoopIdle /\ LedgerLockInit

SpecQuotaFile == InitQuotaFile /\ [][QuotaFileNext]_vars

\* the same process started on any day of a week: the clock passes every
\* weekday and the Monday after them
QuotaWeekInit ==
    /\ qm_pc = "idle"
    /\ qm_native_api = _get_default_state
    /\ qm_now \in {d * UnitsPerDay : d \in 0..(DaysPerWeek - 1)}
    /\ qm_disk = NoQuotaFile

InitQuotaWeek ==
    StreamInit /\ ProxyStart("codebuddy", <<>>) /\ KeyManagerInit /\ NonStreamInit /\ ConvertIdle /\ QuotaWeekInit /\ CredFileIdle /\ AliasInit /\ ContextIdle /\ RefreshLoopIdle /\ LedgerLockInit

\* the clock and the marks, each saved, with the weekly reset
QuotaWeekNext == QmTick \/ QmMarkNativeExhausted \/ QmAutoReset \/ QmSaveOpen \/ QmSaveWrite

SpecQuotaWeek == InitQuotaWeek /\ [][QuotaWeekNext]_vars

\* the credential file under the save_to_file calls of refresh(), the loads
\* of the file watcher and restarts of the process
InitCredFile ==
    StreamInit /\ ProxyStart("codebuddy", <<>>) /\ KeyManagerInit /\ NonStreamInit /\ ConvertIdle /\ QuotaFileInit /\ CredFileInit /\ AliasInit /\ ContextIdle /\ RefreshLoopIdle /\ LedgerLockInit

SpecCredFile == InitCredFile /\ [][CredFileNext]_vars

\* an API user of one KeyManager: get, set_if_newer and changes of its records
InitAlias ==
    StreamInit /\ ProxyStart("codebuddy", <<>>) /\ KeyManagerInit /\ NonStreamInit /\ ConvertIdle /\ QuotaFileInit /\ CredFileIdle /\ AliasInit /\ ContextIdle /\ RefreshLoopIdle /\ LedgerLockInit

SpecAlias == InitAlias /\ [][AliasNext]_vars

\* the context check of one request for the legacy upstream
InitContext ==
    StreamInit /\ ProxyStart("codebuddy", <<>>) /\ KeyManagerInit /\ NonStreamInit /\ ConvertIdle /\ QuotaFileInit /\ CredFileIdle /\ AliasInit /\ ContextInit /\ RefreshLoopIdle /\ LedgerLockInit

SpecContext == InitContext /\ [][ContextNext]_vars

\* refresh_loop with the endpoint, the clock and the watcher around it
InitRefreshLoop ==
    StreamInit /\ ProxyStart("codebuddy", <<>>) /\ KeyManagerInit /\ NonStreamInit /\ ConvertIdle /\ QuotaFileInit /\ CredFileIdle /\ AliasInit /\ ContextIdle /\ RefreshLoopInit /\ LedgerLockInit

SpecRefreshLoop == InitRefreshLoop /\ [][RefreshLoopNext]_vars

\* request threads in the methods of one QuotaManager
InitLedgerLock ==
    StreamInit /\ ProxyStart("codebuddy", <<>>) /\ KeyManagerInit /\ NonStreamInit /\ ConvertIdle /\ QuotaFileInit /\ CredFileIdle /\ AliasInit /\ ContextIdle /\ RefreshLoopIdle /\ LedgerLockInit

SpecLedgerLock == InitLedgerLock /\ [][LedgerLockNext]_vars

\* hybrid mode started without a native credential: initialize_key_manager
\* returned False and native_client stayed None, so client._get_headers()
\* raises AttributeError in every call of handle_messages_native
NoNativeClientNext ==
    \/ Tick
    \/ \E t \in Threads :
          \/ NextRequest(t)
          \/ RouteCheck(t)
          \/ RouteRead(t)
          \/ NativeHeadersRaise(t)
          \/ LegacyTooLong(t)
          \/ LegacyRecord(t)
          \/ LegacyCall(t)
          \/ QuotaReset(t)
          \/ StatusCheck(t)
          \/ StatusRead(t)

InitNoNativeClient ==
    StreamInit /\ ProxyHybridStart /\ KeyManagerInit /\ NonStreamInit /\ ConvertIdle /\ QuotaFileInit /\ CredFileIdle /\ AliasInit /\ ContextIdle /\ RefreshLoopIdle /\ LedgerLockInit

SpecNoNativeClient == InitNoNativeClient /\ [][NoNativeClientNext]_vars

(***************************************************************************)
(* Properties of the streaming transcoder.                                 *)
(***************************************************************************)
IsAt(p, type, i) == events[p].type = type /\ events[p].index = i

BlockEventTypes == {"content_block_start", "content_block_delta", "content_block_stop"}

\* C1: on a stream that ended normally, every content_block_start(i) is
\* followed before message_stop by exactly one content_block_stop(i), every
\* content_block_delta(i) lies between that start and that stop, and no index
\* is started or stopped twice (the last two hold of every prefix sent).
C1_BlockStartDeltaStop ==
    /\ \A p, q \in DOMAIN events :
          (/\ events[p].type \in {"content_block_start", "content_block_stop"}
           /\ events[q].type = events[p].type
           /\ events[q].index = events[p].index) => p = q
    /\ \A d \in DOMAIN events :
          events[d].type \in {"content_block_delta", "content_block_stop"} =>
             /\ \E p \in 1..(d - 1) : IsAt(p, "content_block_start", events[d].index)
             /\ ~\E q \in 1..(d - 1) : IsAt(q, "content_block_stop", events[d].index)
    /\ spc = "done" =>
          /\ events[Len(events)].type = "message_stop"
          /\ \A p \in DOMAIN events :
                events[p].type = "content_block_start" =>
                   \E q \in (p + 1)..(Len(events) - 1) :
                      IsAt(q, "content_block_stop", events[p].index)

\* a completed stream with a thinking, a text and a tool_use block, the
\* tool_use block with an input_json_delta
C1_Witness ==
    /\ spc = "done"
    /\ \E p, q, r, d \in DOMAIN events :
          /\ events[p].type = "content_block_start" /\ events[p].kind = "thinking"
          /\ events[q].type = "content_block_start" /\ events[q].kind = "text"
          /\ events[r].type = "content_block_start" /\ events[r].kind = "tool_use"
          /\ d > r /\ events[d].kind = "input_json_delta" /\ events[d].index = events[r].index

\* C2: message_start is the first event and only the first; on a stream that
\* completed without an error it is followed by content_block_* events only,
\* then exactly one message_delta, then exactly one message_stop, the last
\* event; nothing follows message_stop and only message_stop follows
\* message_delta.
C2_MessageEnvelope ==
    /\ \A p \in DOMAIN events : (events[p].type = "message_start") <=> (p = 1)
    /\ \A p \in DOMAIN events : events[p].type = "message_stop" => p = Len(events)
    /\ \A p \in DOMAIN events :
          events[p].type = "message_delta" =>
             \A q \in (p + 1)..Len(events) : events[q].type = "message_stop"
    /\ spc = "done" =>
          /\ Len(events) >= 3
          /\ events[Len(events)].type = "message_stop"
          /\ events[Len(events) - 1].type = "message_delta"
          /\ \A p \in 2..(Len(events) - 2) : events[p].type \in BlockEventTypes

\* a completed stream with content blocks between message_start and
\* message_delta
C2_Witness ==
    /\ spc = "done"
    /\ Len(events) >= 6
    /\ \E p \in DOMAIN events : events[p].type = "content_block_stop"

\* the partial_json of the input_json_delta events of block b, concatenated
RECURSIVE ArgsEmitted(_, _)
ArgsEmitted(evs, b) ==
    IF evs = <<>> THEN <<>>
    ELSE (IF Head(evs).kind = "input_json_delta" /\ Head(evs).index = b
          THEN Head(evs).data ELSE <<>>) \o ArgsEmitted(Tail(evs), b)

\* C11: an input_json_delta is emitted only after a content_block_start of
\* type tool_use with the same block index; while the handler runs, that index
\* is the block index of exactly one started slot, and the deltas carrying a
\* slot's block index add up to that slot's accumulated arguments, whether
\* the fragments arrived before or after the slot's id and name.
C11_ToolDeltaAfterStart ==
    /\ \A p \in DOMAIN events :
          events[p].kind = "input_json_delta" =>
             \E q \in 1..(p - 1) :
                /\ IsAt(q, "content_block_start", events[p].index)
                /\ events[q].kind = "tool_use"
    /\ spc \in {"reading", "closing", "done"} =>
          /\ \A p \in DOMAIN events :
                events[p].kind = "input_json_delta" =>
                   \E s \in DOMAIN tool_calls :
                      /\ tool_calls[s].started
                      /\ tool_calls[s].block_index = events[p].index
          /\ \A s, u \in DOMAIN tool_calls :
                (tool_calls[s].started /\ tool_calls[u].started /\ s # u) =>
                   tool_calls[s].block_index # tool_calls[u].block_index
          /\ \A s \in DOMAIN tool_calls :
                tool_calls[s].started =>
                   ArgsEmitted(events, tool_calls[s].block_index) = tool_calls[s].arguments

\* a slot whose fragments arrived in frames before its id and name: its block
\* starts and the fragments follow in one input_json_delta
C11_Witness ==
    \E p \in DOMAIN events :
       /\ p > 1
       /\ events[p].kind = "input_json_delta"
       /\ Len(events[p].data) >= 2
       /\ events[p - 1].type = "content_block_start"
       /\ events[p - 1].kind = "tool_use"
       /\ events[p - 1].index = events[p].index

\* the content_block_start events of type tool_use with block index b
ToolUseStarts(b) ==
    {p \in DOMAIN events : IsAt(p, "content_block_start", b) /\ events[p].kind = "tool_use"}

\* C12 (streaming path): on a stream that ended normally every slot with a
\* function name has exactly one tool_use block, whose id is the slot's id or
\* a generated toolu_ id and whose input deltas add up to the slot's
\* accumulated arguments, and every tool_use block belongs to a slot.
C12_NamedSlotYieldsToolUse ==
    spc = "done" =>
       /\ \A s \in DOMAIN tool_calls :
             tool_calls[s].name # "" =>
                /\ Cardinality(ToolUseStarts(tool_calls[s].block_index)) = 1
                /\ \A p \in ToolUseStarts(tool_calls[s].block_index) :
                      events[p].data = normalize_tool_call_id(tool_calls[s].id)
                /\ ArgsEmitted(events, tool_calls[s].block_index) = tool_calls[s].arguments
       /\ \A p \in DOMAIN events :
             (events[p].type = "content_block_start" /\ events[p].kind = "tool_use") =>
                \E s \in DOMAIN tool_calls : tool_calls[s].block_index = events[p].index

\* C13: while the handler reads, for every slot and every next frame with a
\* fragment for it: if the slot is completed, or its accumulated arguments end
\* with "}" and the fragment starts with "{", then after the frame the slot is
\* completed, its arguments are what they were, and the frame emits no
\* input_json_delta except the one that flushes the earlier arguments when the
\* block starts; and a completed slot stays completed, with the same
\* arguments and the same emitted deltas, in every later step of the stream.
C13_CompletedSlotDropsFragments ==
    /\ [](spc = "reading" =>
            \A s \in DOMAIN tool_calls : \A f \in Frames :
               (/\ Len(f.tool_calls) = 1
                /\ f.tool_calls[1].index = s
                /\ f.tool_calls[1].arguments # <<>>
                /\ \/ tool_calls[s].completed
                   \/ /\ endswith(tool_calls[s].arguments, "}")
                      /\ startswith(f.tool_calls[1].arguments, "{"))
               => LET L == ProcessFrame(Locals, f)
                  IN /\ L.tool_calls[s].completed
                     /\ L.tool_calls[s].arguments = tool_calls[s].arguments
                     /\ \A i \in DOMAIN L.out :
                           L.out[i].kind = "input_json_delta" =>
                              /\ ~tool_calls[s].started
                              /\ L.out[i].data = tool_calls[s].arguments)
    /\ [][\A s \in DOMAIN tool_calls :
             tool_calls[s].completed =>
                /\ s \in DOMAIN tool_calls'
                /\ tool_calls'[s].completed
                /\ tool_calls'[s].arguments = tool_calls[s].arguments
                /\ tool_calls[s].started =>
                      ArgsEmitted(events', tool_calls[s].block_index)
                         = ArgsEmitted(events, tool_calls[s].block_index)]_vars

\* a completed stream with a started slot that was marked completed after a
\* first object
C13_Witness ==
    /\ spc = "done"
    /\ frames_read = MaxFrames
    /\ \E s \in DOMAIN tool_calls :
          /\ tool_calls[s].completed
          /\ tool_calls[s].started
          /\ endswith(tool_calls[s].arguments, "}")
          /\ ArgsEmitted(events, tool_calls[s].block_index) = tool_calls[s].arguments

\* C16: once a write to the caller socket has failed, the handler returns and
\* nothing more is written or tried: no event is added and no error response
\* is attempted.
C16_NoWriteAfterBrokenPipe ==
    [][(spc \in {"disconnected", "raised"}) => (spc' = spc /\ events' = events)]_vars

C18_MalformedFrameSkipped ==
    [][(spc = "reading" /\ frames_read' = frames_read + 1) =>
          /\ spc' \in {"reading", "disconnected"}
          /\ \A p \in DOMAIN events' : p > Len(events) => events'[p].type # "error"]_vars

\* C24: the stop_reason of message_delta is tool_use when a tool_use block
\* was started in the response, whatever the finish_reason; otherwise
\* end_turn for finish_reason stop, max_tokens for length, tool_use for
\* tool_calls and end_turn for any other finish_reason or none.
C24_StopReasonMapping ==
    \A p \in DOMAIN events :
       events[p].type = "message_delta" =>
          events[p].kind =
             IF \E q \in 1..p : events[q].type = "content_block_start" /\ events[q].kind = "tool_use"
             THEN "tool_use"
             ELSE IF finish_reason = "stop" THEN "end_turn"
             ELSE IF finish_reason = "length" THEN "max_tokens"
             ELSE IF finish_reason = "tool_calls" THEN "tool_use"
             ELSE "end_turn"

\* a completed response whose upstream finished with "length" after a
\* tool_use block was started: the stop_reason is tool_use
C24_Witness ==
    /\ spc = "done"
    /\ finish_reason = "length"
    /\ \E q \in DOMAIN events : events[q].type = "content_block_start" /\ events[q].kind = "tool_use"
    /\ events[Len(events) - 1].type = "message_delta"
    /\ events[Len(events) - 1].kind = "tool_use"

\* C27: no cross-block interleaving of start and stop: between
\* content_block_start(i) and content_block_stop(i) no start or stop of
\* another index is written, so at most one content block is open at any
\* time: a block is started only after every earlier block was stopped.
C27_OneBlockOpenAtATime ==
    \A p, q \in DOMAIN events :
       (/\ p < q
        /\ events[p].type = "content_block_start"
        /\ events[q].type = "content_block_start") =>
          \E r \in (p + 1)..(q - 1) : IsAt(r, "content_block_stop", events[p].index)

\* the type of the block with index i: the kind of its content_block_start
BlockKind(i) ==
    LET p == CHOOSE p \in DOMAIN events : IsAt(p, "content_block_start", i)
    IN events[p].kind

StopRank(kind) == IF kind = "thinking" THEN 0 ELSE IF kind = "text" THEN 1 ELSE 2

\* C28: content_block_stop events are written only after the upstream stream
\* has ended, never while frames are read (a finish_reason closes nothing),
\* and they come in the order thinking block, text block, tool_use blocks,
\* the tool_use stops in ascending block index.
C28_StopsAfterStreamInOrder ==
    /\ spc \in {"idle", "connecting", "reading"} =>
          \A p \in DOMAIN events : events[p].type # "content_block_stop"
    /\ \A p, q \in DOMAIN events :
          (/\ p < q
           /\ events[p].type = "content_block_stop"
           /\ events[q].type = "content_block_stop") =>
             \/ StopRank(BlockKind(events[p].index)) < StopRank(BlockKind(events[q].index))
             \/ /\ BlockKind(events[p].index) = "tool_use"
                /\ BlockKind(events[q].index) = "tool_use"
                /\ events[p].index < events[q].index

\* the positions of the content_block_start events before position p
StartsBefore(p) == {q \in 1..(p - 1) : events[q].type = "content_block_start"}

\* C29: block indices come from one counter that starts at 0, in the order
\* the blocks are started, whatever their type: the k-th content_block_start
\* of a response has index k-1 (none skipped, none given twice), and the
\* index of a started block never changes.
C29_BlockIndexInStartOrder ==
    /\ [](\A p \in DOMAIN events :
             events[p].type = "content_block_start" =>
                events[p].index = Cardinality(StartsBefore(p)))
    /\ [][/\ thinking_block_started => thinking_block_index' = thinking_block_index
          /\ content_block_started => text_block_index' = text_block_index
          /\ \A s \in DOMAIN tool_calls :
                tool_calls[s].started =>
                   /\ s \in DOMAIN tool_calls'
                   /\ tool_calls'[s].block_index = tool_calls[s].block_index]_vars

\* a completed response whose blocks started in the order tool_use, text,
\* thinking, with the indices 0, 1, 2
C29_Witness ==
    /\ spc = "done"
    /\ \E p, q, r \in DOMAIN events :
          /\ p < q /\ q < r
          /\ events[p].type = "content_block_start" /\ events[p].kind = "tool_use"
          /\ events[p].index = 0
          /\ events[q].type = "content_block_start" /\ events[q].kind = "text"
          /\ events[q].index = 1
          /\ events[r].type = "content_block_start" /\ events[r].kind = "thinking"
          /\ events[r].index = 2

\* C30: for every started tool call slot, after every frame, the partial_json
\* payloads emitted so far for its block concatenate to the slot's
\* accumulated arguments; a frame adds to the emitted payloads exactly what
\* it adds to the accumulated arguments, and the frame that starts the block
\* emits the accumulated arguments once, the fragment of that frame included.
C30_EmittedEqualsAccumulated ==
    /\ [](spc \in {"reading", "closing", "done"} =>
             \A s \in DOMAIN tool_calls :
                tool_calls[s].started =>
                   ArgsEmitted(events, tool_calls[s].block_index) = tool_calls[s].arguments)
    /\ [][(spc = "reading" /\ spc' = "reading") =>
             \A s \in DOMAIN tool_calls' :
                tool_calls'[s].started =>
                   LET b == tool_calls'[s].block_index
                       written == SubSeq(events', Len(events) + 1, Len(events'))
                   IN IF s \in DOMAIN tool_calls /\ tool_calls[s].started
                      THEN tool_calls[s].arguments \o ArgsEmitted(written, b) = tool_calls'[s].arguments
                      ELSE ArgsEmitted(written, b) = tool_calls'[s].arguments]_vars

\* a slot whose block started with a flush of two accumulated fragments and
\* which received one more fragment afterwards
C30_Witness ==
    \E s \in DOMAIN tool_calls :
       /\ tool_calls[s].started
       /\ Len(tool_calls[s].arguments) = 3
       /\ \E p, q \in DOMAIN events :
             /\ p < q
             /\ events[p].kind = "input_json_delta" /\ events[q].kind = "input_json_delta"
             /\ events[p].index = tool_calls[s].block_index
             /\ events[q].index = tool_calls[s].block_index
             /\ Len(events[p].data) = 2
             /\ Len(events[q].data) = 1

(***************************************************************************)
(* Properties of the non-streaming response.                               *)
(***************************************************************************)
\* the tool_use blocks of the message that was sent
SentToolUses == SelectSeq(ns_sent[1].content, LAMBDA b : b.type = "tool_use")

\* the slots that carry a function name
NamedSlots == {s \in DOMAIN ns_tool_calls : ns_tool_calls[s].name # ""}

\* the arguments text is one complete object followed by a second one
TwoObjects(arguments) ==
    /\ Len(arguments) = 6
    /\ json_loads(SubSeq(arguments, 1, 3)).ok
    /\ json_loads(SubSeq(arguments, 4, 6)).ok

\* C14: in a message that was sent, the named slots have one tool_use block
\* each, in slot order, and the block of a slot whose arguments are a complete
\* object followed by a second complete object has the first object as input.
C14_FirstObjectIsInput ==
    ns_pc = "done" =>
       /\ Len(SentToolUses) = Cardinality(NamedSlots)
       /\ \A s \in NamedSlots :
             TwoObjects(ns_tool_calls[s].arguments) =>
                SentToolUses[Cardinality({u \in NamedSlots : u <= s})].input
                   = json_loads(SubSeq(ns_tool_calls[s].arguments, 1, 3)).value

(***************************************************************************)
(* Properties of convert_anthropic_messages.                               *)
(***************************************************************************)
\* the blocks the conversion keeps as user content
KeptTypes == {"text", "image", "document"}

\* the payloads of the messages, in output order
RECURSIVE Payloads(_)
Payloads(msgs) ==
    IF msgs = <<>> THEN <<>>
    ELSE [i \in DOMAIN Head(msgs).content |-> Head(msgs).content[i].payload]
         \o Payloads(Tail(msgs))

\* the positions of the content list whose type is in T, in source order
RECURSIVE PositionsOf(_, _, _)
PositionsOf(c, T, i) ==
    IF i > Len(c) THEN <<>>
    ELSE (IF c[i].type \in T THEN <<i>> ELSE <<>>) \o PositionsOf(c, T, i + 1)

\* the first positions of the maximal runs of consecutive non-tool_result blocks
RunStarts(c) ==
    {i \in DOMAIN c : c[i].type # "tool_result" /\ (i = 1 \/ c[i - 1].type = "tool_result")}

\* the maximal run that starts at position i
RunOf(c, i) ==
    {j \in i..Len(c) : \A k \in i..j : c[k].type # "tool_result"}

UserMessages == {k \in DOMAIN converted_messages : converted_messages[k].role = "user"}

ToolMessages == {k \in DOMAIN converted_messages : converted_messages[k].role = "tool"}

\* the output holds every kept block and every tool_result once, in source
\* order; a tool message holds one tool_result, a user message holds kept
\* blocks of one run, and no two user messages are adjacent
OrderPreserved ==
    /\ Payloads(converted_messages)
          = PositionsOf(cv_content, KeptTypes \cup {"tool_result"}, 1)
    /\ \A k \in ToolMessages :
          /\ Len(converted_messages[k].content) = 1
          /\ cv_content[converted_messages[k].content[1].payload].type = "tool_result"
    /\ \A k \in UserMessages :
          /\ converted_messages[k].content # <<>>
          /\ \A i \in DOMAIN converted_messages[k].content :
                cv_content[converted_messages[k].content[i].payload].type \in KeptTypes
          /\ (k + 1) \in DOMAIN converted_messages => converted_messages[k + 1].role = "tool"
    /\ Cardinality(ToolMessages) = Len(PositionsOf(cv_content, {"tool_result"}, 1))

C20_QuotaErrorIs429 ==
    \A p \in DOMAIN events :
       (events[p].type = "error" /\ events[p].kind = "rate_limit_error") =>
          StreamStatusLine = 429

(***************************************************************************)
(* Properties of native requests with the KeyManager's credential.         *)
(***************************************************************************)
\* C19: a refresh that fails with 401 clears the memory key, and a request
\* routed to the native upstream while no key is loaded is answered with an
\* error response: it is not forwarded and it does not end without an answer.
C19_NoKeyAnsweredWithError ==
    [][/\ \A c \in Callers :
             (outcome'[c] = "unauthorized" /\ kpc[c] = "http") => _key' = None
       /\ \A t \in Threads :
             (rpc[t] = "native_begin" /\ _key = None /\ rpc'[t] # "native_begin") =>
                /\ rpc'[t] = "done"
                /\ \/ sock'[t] = ErrorResponse("native_error")
                   \/ conn'[t] = "broken"]_vars

(***************************************************************************)
(* Properties of the router, the failover and the quota ledger.            *)
(***************************************************************************)
\* the first Monday 00:00 strictly after instant t
NextMondayAfter(t) ==
    CHOOSE m \in (t + 1)..(t + DaysPerWeek * UnitsPerDay) : m % (DaysPerWeek * UnitsPerDay) = 0

\* everything in s was written by the legacy path
FromLegacy(s) == \A i \in 1..Len(s) : s[i].src \in {"legacy", "legacy_error"}

\* status lines in s
StatusLines(s) == {i \in 1..Len(s) : s[i].part \in {"status", "error_status"}}

\* C3: the failover is entered only while nothing has been written to the
\* caller socket, and a request that failed over gets exactly one response,
\* written by the legacy path, with nothing of the native response around it.
C3_FailoverBeforeAnyByte ==
    \A t \in Threads :
       /\ rpc[t] = "fallback" => sock[t] = <<>> /\ conn[t] = "open"
       /\ (route[t] = "failover" /\ rpc[t] = "done") =>
             /\ FromLegacy(sock[t])
             /\ Cardinality(StatusLines(sock[t])) <= 1
             /\ conn[t] = "open" =>
                   sock[t] \in {LegacyResponse, ErrorResponse("legacy_error")}

C3_Witness ==
    \E t \in Threads :
       /\ route[t] = "failover"
       /\ rpc[t] = "done"
       /\ sock[t] = LegacyResponse

\* the step is reset_native or an auto-reset that is due
IsResetStep ==
    \/ \E u \in Threads : rpc[u] = "idle" /\ rpc'[u] = "status_check"
    \/ AutoResetDue(native_api, now)

C5_Routing ==
    [][\A t \in Threads :
          /\ (route[t] = "none" /\ route'[t] # "none") =>
                /\ current_provider = "native" =>
                      route'[t] = "native" /\ rpc'[t] = "native_begin"
                /\ current_provider = "codebuddy" =>
                      route'[t] = "codebuddy" /\ rpc'[t] = "legacy_begin"
                /\ current_provider = "hybrid" =>
                      /\ rpc[t] = "route_read"
                      /\ native_api.quota_exhausted =>
                            route'[t] = "codebuddy" /\ rpc'[t] = "legacy_begin"
                      /\ ~native_api.quota_exhausted =>
                            route'[t] = "native" /\ rpc'[t] = "native_begin"
                      /\ did_reset[t] = "reset" => route'[t] = "native"
          /\ (native_api.quota_exhausted /\ ~native_api'.quota_exhausted) =>
                \/ \E u \in Threads : rpc[u] = "idle" /\ rpc'[u] = "status_check"
                \/ now >= fromisoformat(native_api.reset_at)
          /\ (~native_api.quota_exhausted /\ native_api'.quota_exhausted) =>
                \E u \in Threads : rpc[u] = "native_call" /\ rpc'[u] = "fallback"]_vars

C5_Witness ==
    \E t, u \in Threads :
       /\ current_provider = "hybrid"
       /\ route[t] = "codebuddy" /\ rpc[t] = "done" /\ sock[t] = LegacyResponse
       /\ route[u] = "native" /\ did_reset[u] = "reset" /\ rpc[u] = "native_call"

C10_ResetAfterExhausted ==
    /\ native_api.quota_exhausted =>
          /\ native_api.exhausted_at # None
          /\ native_api.reset_at # None
          /\ fromisoformat(native_api.reset_at) > fromisoformat(native_api.exhausted_at)
    /\ (quota_file # <<>> /\ quota_file[1].quota_exhausted) =>
          /\ quota_file[1].exhausted_at # None
          /\ quota_file[1].reset_at # None
          /\ fromisoformat(quota_file[1].reset_at) > fromisoformat(quota_file[1].exhausted_at)

\* exhausted on a Monday at 00:00, after requests were counted
C10_Witness ==
    /\ native_api.quota_exhausted
    /\ native_api.request_count > 0
    /\ fromisoformat(native_api.exhausted_at) % (DaysPerWeek * UnitsPerDay) = 0

(***************************************************************************)
(* Properties of the credential store.                                     *)
(***************************************************************************)
\* refresh() calls between the setting and the clearing of the flag
InProgress == {c \in Callers : kpc[c] \in {"get", "http", "save", "assign", "finally"}}

\* C6: at most one refresh HTTP request is in flight; a refresh() call that
\* finds another one in progress returns False in its first step, having
\* issued no HTTP request and changed nothing.
C6_SingleRefreshInFlight ==
    /\ [](Cardinality({c \in Callers : kpc[c] = "http"}) <= 1)
    /\ [](\A c \in Callers :
             outcome[c] = "in_flight" => kpc[c] = "returned" /\ ~issued[c])
    /\ [][\A c \in Callers :
             /\ (kpc[c] = "idle" /\ kpc'[c] # "idle" /\ InProgress # {}) =>
                   /\ kpc'[c] = "returned"
                   /\ outcome'[c] = "in_flight"
                   /\ UNCHANGED <<_key, _refreshing, config_file, issued, new_key>>
             /\ (kpc[c] # "http" /\ kpc'[c] = "http") => InProgress = {c}]_vars

C6_Witness ==
    \E c, d \in Callers :
       /\ outcome[c] = "in_flight"
       /\ kpc[c] = "returned"
       /\ ~issued[c]
       /\ kpc[d] = "http"

\* C7: a refresh that completes while the memory holds a static key or a key
\* that expires later than the refreshed one leaves that key in place.
C7_RefreshKeepsNewerKey ==
    [][\A c \in Callers :
          ( /\ kpc[c] = "assign"
            /\ kpc'[c] = "finally"
            /\ _key # None
            /\ \/ _key[1].expiresAt = 0
               \/ _key[1].expiresAt > new_key[c][1].expiresAt ) =>
             _key' = _key]_vars

\* C8: a set_if_newer call returns True and stores the candidate iff no key
\* was stored, or the stored key expires and the candidate is static or
\* expires strictly later; else it returns False and the stored key stays.
C8_SetIfNewerRule ==
    [][sin_calls' # sin_calls =>
          LET candidate == sin_arg'[1]
              accepted ==
                 \/ _key = None
                 \/ /\ _key[1].expiresAt # 0
                    /\ \/ candidate.expiresAt = 0
                       \/ candidate.expiresAt > _key[1].expiresAt
          IN /\ sin_ret' = accepted
             /\ accepted => _key' = Some(candidate)
             /\ ~accepted => _key' = _key]_vars

\* a candidate with the expiresAt of the stored key, and another token, was
\* turned down
C8_Witness ==
    /\ sin_arg # None
    /\ _key # None
    /\ sin_ret = FALSE
    /\ sin_arg # _key
    /\ sin_arg[1].expiresAt = _key[1].expiresAt
    /\ _key[1].expiresAt # 0

(***************************************************************************)
(* Properties of the quota file.                                           *)
(***************************************************************************)
\* C21: every mutator persists by temp-file-and-rename: at every instant,
\* running or killed, the quota file is absent or holds the complete text
\* of a ledger state, never an empty or partially written text.
C21_QuotaFileNeverTorn == qm_disk.kind \in {"absent", "complete"}

\* C26: the reset time mark_native_exhausted computes at instant now is a
\* Monday 00:00, strictly later than now and at most 7 days after it; at
\* Monday 00:00 exactly it is 7 days later, and at any other moment of a
\* Monday it is the following Monday.
C26_NextMondayMidnight ==
    qm_native_api.quota_exhausted =>
       LET t == fromisoformat(qm_native_api.exhausted_at)
           r == fromisoformat(qm_native_api.reset_at)
           week == DaysPerWeek * UnitsPerDay
       IN /\ r % week = 0
          /\ r > t
          /\ r <= t + week
          /\ (t % week = 0) => r = t + week
          /\ (t % week < UnitsPerDay) => r = t - (t % week) + week

\* the ledger was marked at a Monday 00:00 and resets 7 days later
C26_Witness ==
    /\ qm_native_api.quota_exhausted
    /\ fromisoformat(qm_native_api.exhausted_at) % (DaysPerWeek * UnitsPerDay) = 0
    /\ fromisoformat(qm_native_api.reset_at) =
          fromisoformat(qm_native_api.exhausted_at) + DaysPerWeek * UnitsPerDay

(***************************************************************************)
(* Properties of the credential file.                                      *)
(***************************************************************************)
\* C22: at every step of every save_to_file the file at config_path holds a
\* complete content, the previous one or the new one (it changes only by the
\* rename, to the key being saved), and no load_from_file of the watcher
\* meets a torn file.
C22_ConfigFileNeverTorn ==
    /\ [](cs_config.kind = "complete" /\ cs_loaded # "torn")
    /\ [][cs_config' # cs_config =>
             \E c \in Callers :
                /\ cs_pc[c] = "replace"
                /\ cs_config' = Disk("complete", cs_key[c])]_vars

\* the watcher loaded the file while a save had its temporary file written
\* and not yet renamed, and the file held the previous key
C22_Witness ==
    /\ cs_loaded = "key"
    /\ \E c \in Callers :
          /\ cs_pc[c] = "replace"
          /\ cs_tmp = Disk("complete", cs_key[c])
          /\ cs_config.kind = "complete"
          /\ cs_config.state # cs_key[c]
          /\ cs_config.state \in RefreshedKeys

(***************************************************************************)
(* Properties of the stored key against the records of its callers.        *)
(***************************************************************************)
\* C23: the stored key is isolated from callers: a change a caller makes to
\* a record that get() returned, or to a record it passed to set_if_newer,
\* never changes the value of the stored key (what later get() calls return).
C23_StoredKeyIsolated == [][al_op' = "mutate" => Stored' = Stored]_vars

(***************************************************************************)
(* Properties of the context check.                                        *)
(***************************************************************************)
\* C25: every body sent to the legacy upstream, directly or by the failover,
\* has estimated input + max_tokens within the context window when it sets
\* max_tokens; and a request whose remaining budget (context window minus
\* estimated input) is below 100 tokens is never sent but answered with
\* HTTP 400 invalid_request_error.
C25_SentBodyWithinContext ==
    /\ (cx_pc = "sent" /\ cx_payload_max # None) =>
          cx_input + cx_payload_max[1] <= DEFAULT_MAX_CONTEXT
    /\ (cx_pc # "received" /\ DEFAULT_MAX_CONTEXT - cx_input < MinAvailableForOutput) =>
          /\ cx_pc = "rejected"
          /\ cx_error = <<400, "invalid_request_error">>

(***************************************************************************)
(* Properties of the end of a stream.                                      *)
(***************************************************************************)
TerminalEvents == {i \in 1..Len(events) : events[i].type \in {"message_stop", "error"}}

C32_ToolUseOnlyWithToolUseBlock ==
    /\ \A p \in DOMAIN events :
          (events[p].type = "message_delta" /\ events[p].kind = "tool_use") =>
             \E q \in 1..p : events[q].type = "content_block_start" /\ events[q].kind = "tool_use"
    /\ \A r \in DOMAIN ns_sent :
          (ns_sent[r].stop_reason = "tool_use") =>
             \E i \in DOMAIN ns_sent[r].content : ns_sent[r].content[i].type = "tool_use"

(***************************************************************************)
(* Properties of the refreshing flag.                                      *)
(***************************************************************************)
\* C33: the flag is true exactly while one refresh() call is between its
\* guard and its end; every call that set it clears it when it ends, however
\* it ends (refreshed, RefreshError, other exception, no key); a call that
\* returns at the guard (skipped, not needed) leaves the flag as it is; and
\* a set flag is always cleared again.
C33_FlagHeldByOneRefresh ==
    /\ [](_refreshing <=> Cardinality(InProgress) = 1)
    /\ [](Cardinality(InProgress) <= 1)
    /\ [][\A c \in Callers :
             /\ (c \in InProgress /\ kpc'[c] = "returned") => ~_refreshing'
             /\ (kpc[c] = "idle" /\ kpc'[c] = "returned") =>
                   /\ outcome'[c] \in {"in_flight", "not_needed"}
                   /\ _refreshing' = _refreshing]_vars
    /\ [](_refreshing => <>(~_refreshing))

\* a refresh() that found no key has ended and cleared the flag, after
\* another call was turned away at the guard
C33_Witness ==
    \E c, d \in Callers :
       /\ kpc[c] = "returned"
       /\ outcome[c] = "no_key"
       /\ kpc[d] = "returned"
       /\ outcome[d] = "in_flight"
       /\ ~_refreshing

(***************************************************************************)
(* Properties of refresh_loop.                                             *)
(***************************************************************************)
\* C34: when refresh_loop has counted a refresh, a successful one leaves the
\* retry counter at 0; the 5th consecutive failed one clears the memory key
\* and leaves the counter at 0; an earlier failed one keeps the key.
C34_ClearedAfterFiveFailures ==
    [][(rl_pc = "count" /\ rl_pc' = "sleep") =>
          IF rl_result.success THEN retry_count' = 0
          ELSE IF retry_count + 1 = 5 THEN rl_key' = None /\ retry_count' = 0
          ELSE (retry_count + 1 < 5) => rl_key' = rl_key]_vars

\* C35: a refresh that fails with anything other than HTTP 401 (another
\* status, a network error, an invalid response body) leaves the memory key
\* and the credential file as they were; a single failure clears the key
\* only when the endpoint answered 401.
C35_OnlyUnauthorizedClears ==
    [][(/\ rl_pc = "refresh"
        /\ rl_pc' = "count"
        /\ ~rl_result'.success
        /\ rl_result'.status # "401") => (rl_key' = rl_key /\ rl_file' = rl_file)]_vars

C37_WatcherOnlySetsIfNewer ==
    /\ [](wpc = "apply" => Loadable(wkey))
    /\ [][(wpc = "sleep" /\ watcher_mtime # watcher_mtime' /\ watcher_mtime' = "same") =>
             /\ _key' = _key
             /\ wpc' = IF watcher_mtime = "none" THEN "sleep" ELSE "load"]_vars
    /\ [][(wpc # "load" /\ wpc' = "load") => watcher_mtime = "differs"]_vars
    /\ [][(wpc = "load" /\ wpc' # "load") =>
             /\ _key' = _key
             /\ IF Loadable(config_file)
                THEN wpc' = "apply" /\ wkey' = config_file
                ELSE wpc' = "sleep"]_vars
    /\ [][(wpc = "apply" /\ wpc' # "apply") =>
             /\ _key' = set_if_newer(_key, wkey[1]).key
             /\ wpc' = "sleep"]_vars

\* the watcher has seen the mtime change (not its first sight of the file),
\* is about to load a file that does not load, and the memory holds a key
C37_Witness ==
    /\ wpc = "load"
    /\ watcher_mtime = "same"
    /\ ~Loadable(config_file)
    /\ _key # None

(***************************************************************************)
(* Properties of the request counter.                                      *)
(***************************************************************************)
\* C38: in hybrid mode a request is counted once, by the step that takes it
\* to its first upstream (native or legacy); nothing it does afterwards, the
\* failover to the legacy upstream included, counts it again, and a request
\* reaches an upstream only through that one step.
C38_CountedOncePerRequest ==
    [][\A t \in Threads :
          (current_provider = "hybrid" /\ rpc'[t] # rpc[t]) =>
             /\ (rpc'[t] \in {"native_call", "legacy_call"}) =>
                   /\ rpc[t] \in {"native_begin", "legacy_begin"}
                   /\ native_api'.request_count = native_api.request_count + 1
             /\ (rpc[t] \in {"native_call", "legacy_call", "fallback"}) =>
                   /\ rpc'[t] \in {"fallback", "done"}
                   /\ native_api'.request_count = native_api.request_count
             /\ (rpc'[t] = "fallback") => rpc[t] = "native_call"]_vars

\* a request that failed over to the legacy upstream has been answered and
\* the ledger has counted one request
C38_Witness ==
    \E t \in Threads :
       /\ current_provider = "hybrid"
       /\ route[t] = "failover"
       /\ rpc[t] = "done"
       /\ sock[t] = LegacyResponse
       /\ native_api.request_count = 1

C40_NoClientNoNativeRoute ==
    \A t \in Threads :
       /\ route[t] # "native"
       /\ rpc[t] \notin {"native_begin", "crashed"}
====
